---- MODULE Spec2Model ----
(***************************************************************************)
(* Model of the penguin-health audit pipeline: the Bedrock invocation      *)
(* client with JSON recovery and bounded retries, the two-step LLM rule    *)
(* protocol, the parallel rule evaluation of validate_document, the        *)
(* text-based encounter segmentation, the label-based field extraction,    *)
(* the normalization of Textract blocks, the CSV report, the validation    *)
(* run's lambda_handler, and the storing and archiving of documents.       *)
(*                                                                         *)
(* Each component has its own specification over the shared variables:     *)
(*   SpecRule    one evaluate_rule call, or one direct invoke_claude_model *)
(*   SpecEngine  validate_document with its thread pool                    *)
(*   SpecPool    the thread pool alone, with weak fairness                 *)
(*   SpecSplit   split_into_encounters                                     *)
(*   SpecJson    _extract_complete_json as a character scanner             *)
(*   SpecFields  extract_fields_from_text                                  *)
(*   SpecNorm    process_textract_response                                 *)
(*   SpecReport  generate_csv_from_dynamodb                                *)
(*   SpecRun     lambda_handler of the validation run                      *)
(*   SpecRecover extract_json_from_claude_response                         *)
(*   SpecOrder   two executions of validate_document and the report        *)
(*   SpecFrame   the fields dict shared by the rule evaluations            *)
(*   SpecStore   process_and_store_results of the Textract result handler  *)
(*   SpecFile    process_file of the multi-org rules engine, step by step  *)
(***************************************************************************)
EXTENDS Integers, Sequences, FiniteSets, TLC

VARIABLES
    rule_config,      \* SpecRule: the rule passed to evaluate_rule
    m,                \* SpecRule: position and locals of evaluate_rule
    calls,            \* SpecRule: bedrock invoke_model calls per protocol step
    inv,              \* SpecRule: frame of a direct invoke_claude_model call
    rules,            \* SpecEngine: config['rules'], a sequence of rule configs
    main_pc,          \* SpecEngine: position of validate_document
    max_workers,      \* SpecEngine: size of the ThreadPoolExecutor
    queue,            \* SpecEngine: submitted work items no worker has taken yet
    future,           \* SpecEngine: per rule, the state of its evaluate_rule call
    rule_results,     \* SpecEngine: the list validate_document appends to
    called,           \* SpecEngine: rules for which a bedrock call was made
    record,           \* SpecEngine: the record validate_document returns
    extracted_data,   \* SpecSplit: the normalized document (text, lines_text)
    chart_config,     \* SpecSplit: the organization's chart configuration
    is_irp,           \* SpecSplit: whether the document is an IRP document
    encounters,       \* SpecSplit: what split_into_encounters returned
    split_pc,         \* SpecSplit: position of the split_into_encounters call
    json_text,        \* SpecJson: the text passed to _extract_complete_json
    scan,             \* SpecJson: the locals of _extract_complete_json
    json_pc,          \* SpecJson: position of the _extract_complete_json call
    fx_text,          \* SpecFields: the text passed to extract_fields_from_text
    field_mappings,   \* SpecFields: the mapping field name -> label
    fields,           \* SpecFields: what extract_fields_from_text returned
    fx_pc,            \* SpecFields: position of the call ("raised": ValueError)
    response,         \* SpecNorm: the Textract response, its Blocks list
    form_pairs,       \* SpecNorm: the sorted key/value pairs of the forms text
    norm_data,        \* SpecNorm: what process_textract_response returned
    norm_pc,          \* SpecNorm: position of the process_textract_response call
    items,            \* SpecReport: the records the gsi2 query returns for the run
    csv_rows,         \* SpecReport: the rows written to the CSV, header first
    report_pc,        \* SpecReport: position of the generate_csv_from_dynamodb call
    handler,          \* SpecRun: which lambda_handler runs ("asset", "multi_org")
    stored_config,    \* SpecRun: the organization's stored configuration
    contents,         \* SpecRun: response['Contents'] of the listing
    run_config,       \* SpecRun: the configuration the handler loaded
    obj_idx,          \* SpecRun: position of the handler's loop in the listing
    table,            \* SpecRun: the items of the validation results table
    clock,            \* SpecRun: what datetime.utcnow() gives next
    files_processed,  \* SpecRun: process_file calls that returned
    run_log,          \* SpecRun: what failed, and the reads and writes made
    csv_report,       \* SpecRun: the report saved for the run
    handler_result,   \* SpecRun: what lambda_handler returned
    run_pc,           \* SpecRun: position of lambda_handler
    response_body,    \* SpecRecover: the text blocks of the model response's content
    extracted_json,   \* SpecRecover: what extract_json_from_claude_response returned
    recover_pc,       \* SpecRecover: position of the extract_json_from_claude_response call
    evaluated,        \* SpecOrder: per enabled rule, the result its evaluate_rule call returns
    completion,       \* SpecOrder: per execution, the rules in the order as_completed yielded them
    stored_record,    \* SpecOrder: per execution, the record validate_document returned and store_results put
    run_csv,          \* SpecOrder: per execution, the rows of the run's report
    order_pc,         \* SpecOrder: per execution, the position of validate_document and the report
    engine,           \* SpecFrame: which rules engine runs ("asset", "legacy")
    doc_text,         \* SpecFrame: data['text'] of the document
    shared_fields,    \* SpecFrame: the fields dict validate_document passes to every evaluate_rule
    model_input,      \* SpecFrame: per rule, the chart text its model call was given
    frame_record,     \* SpecFrame: field_values of the record validate_document returned
    frame_pc,         \* SpecFrame: position of validate_document
    normalized,       \* SpecStore: extracted_data of the document
    store_config,     \* SpecStore: the organization's chart configuration
    store_encounters, \* SpecStore: what split_into_encounters returned
    enc_idx,          \* SpecStore: encounters the loop has saved
    encounter_files,  \* SpecStore: the keys the handler collected for the manifest
    store_s3,         \* SpecStore: the bucket (encounter objects, puts in order, manifest, source PDF, archive copy)
    store_cause,      \* SpecStore: what made process_and_store_results raise
    store_pc,         \* SpecStore: position of process_and_store_results
    file_key,         \* SpecFile: the key process_file was called with
    file_rules,       \* SpecFile: number of enabled rules of the configuration
    rules_completed,  \* SpecFile: rule futures that have completed
    file_bucket,      \* SpecFile: the bucket, a set of <<key, content>> objects
    store_calls,      \* SpecFile: calls of store_results for the file
    items_written,    \* SpecFile: put_item calls that succeeded
    file_steps,       \* SpecFile: steps of process_file that have returned, in order
    file_pc           \* SpecFile: the step process_file is at

ruleVars == <<rule_config, m, calls, inv>>
engineVars == <<rules, main_pc, max_workers, queue, future, rule_results, called, record>>

splitVars == <<extracted_data, chart_config, is_irp, encounters, split_pc>>

jsonVars == <<json_text, scan, json_pc>>

fieldVars == <<fx_text, field_mappings, fields, fx_pc>>

normVars == <<response, form_pairs, norm_data, norm_pc>>

reportVars == <<items, csv_rows, report_pc>>

runVars ==
    <<handler, stored_config, contents, run_config, obj_idx, table, clock,
      files_processed, run_log, csv_report, handler_result, run_pc>>

recoverVars == <<response_body, extracted_json, recover_pc>>

orderVars == <<evaluated, completion, stored_record, run_csv, order_pc>>

frameVars == <<engine, doc_text, shared_fields, model_input, frame_record, frame_pc>>

storeVars == <<normalized, store_config, store_encounters, enc_idx, encounter_files, store_s3, store_cause, store_pc>>

fileVars == <<file_key, file_rules, rules_completed, file_bucket, store_calls, items_written, file_steps, file_pc>>

vars == <<ruleVars, engineVars, splitVars, jsonVars, fieldVars, normVars, reportVars, runVars, recoverVars, orderVars, frameVars, storeVars, fileVars>>

(***************************************************************************)
(* Bounds.                                                                 *)
(***************************************************************************)
MaxRetries == 2          \* largest retries argument of a direct invocation
MaxRules == 2            \* longest rule list of SpecEngine
MaxPoolRules == 4        \* longest rule list of SpecPool
MaxFormsLen == 5         \* longest forms text (characters) of SpecSplit
MaxLinesLen == 3         \* longest lines text (characters) of SpecSplit
MaxJsonLen == 5          \* longest response text (characters) of SpecJson
MaxFieldTextLen == 4     \* longest text (characters) of SpecFields

(***************************************************************************)
(* Python values.  None is the string "None"; a JSON object returned by    *)
(* the model is a record that lists the keys it has.                       *)
(***************************************************************************)
None == "None"

Statuses == {"PASS", "FAIL", "SKIP", "ERROR"}

\* What one bedrock invoke_model call can give: the call raises
\* ("network_error"), the response text holds no parseable JSON object
\* ("no_json"), or extract_json_from_claude_response returns an object.
Resp(kind, keys, status, fields_value) ==
    [kind |-> kind, keys |-> keys, status |-> status,
     reasoning |-> IF "reasoning" \in keys THEN "ok" ELSE "",
     fields |-> fields_value]

NetworkError == Resp("network_error", {}, "", "")
NoJson == Resp("no_json", {}, "", "")
NoResponse == Resp("none", {}, "", "")       \* no bedrock call was answered yet
Verdict(s) == Resp("json", {"status", "reasoning"}, s, "")

\* "MAYBE" stands for any status string outside the enum the prompt asks for.
VerdictResponses == {Verdict(s) : s \in {"PASS", "FAIL", "SKIP", "MAYBE"}}

MalformedResponses ==
    { Resp("json", {"reasoning"}, "", ""),        \* no "status" key
      Resp("json", {"status"}, "PASS", "") }      \* no "reasoning" key

FieldsResponses ==
    { Resp("json", {"fields"}, "", "obj"),        \* {"fields": {...}}
      Resp("json", {"fields"}, "", "empty"),      \* {"fields": {}}
      Resp("json", {"fields"}, "", None),         \* {"fields": null}
      Resp("json", {}, "", "") }                  \* {}

Responses ==
    {NetworkError, NoJson} \cup VerdictResponses \cup MalformedResponses
        \cup FieldsResponses

NoJsonMessage == "No JSON found in Claude response"

\* str(e) of the exception a failed bedrock call raises
NetworkMessage == "bedrock invoke_model failed"

(***************************************************************************)
(* invoke_claude_model: one attempt, i.e. one activation of the function   *)
(* up to its return, its raise or its recursive call.  The result names    *)
(* what happens (kind), the exception text, the returned value ("json" is  *)
(* the object of resp) and the retries argument of the recursive call.     *)
(***************************************************************************)
InvokeRetryOffByOne(retries, return_json_only, raise_on_error, resp) ==
    IF resp.kind = "network_error"
        THEN [kind |-> "raise", exc |-> NetworkMessage, value |-> None, retries |-> retries]
    ELSE IF ~return_json_only
        THEN [kind |-> "return", exc |-> "", value |-> "response_body", retries |-> retries]
    ELSE IF resp.kind = "no_json"
        THEN IF retries >= 0       \* the bug: ">=" where the code has ">"
                THEN [kind |-> "retry", exc |-> "", value |-> None, retries |-> retries - 1]
             ELSE IF raise_on_error
                THEN [kind |-> "raise", exc |-> NoJsonMessage, value |-> None, retries |-> retries]
                ELSE [kind |-> "return", exc |-> "", value |-> None, retries |-> retries]
    ELSE [kind |-> "return", exc |-> "", value |-> "json", retries |-> retries]

\* a client that also retries a failed network call
InvokeRetriesNetworkError(retries, return_json_only, raise_on_error, resp) ==
    IF resp.kind = "network_error"
        THEN IF retries > 0
                THEN [kind |-> "retry", exc |-> "", value |-> None, retries |-> retries - 1]
                ELSE [kind |-> "raise", exc |-> NetworkMessage, value |-> None,
                      retries |-> retries]
    ELSE IF ~return_json_only
        THEN [kind |-> "return", exc |-> "", value |-> "response_body", retries |-> retries]
    ELSE IF resp.kind = "no_json"
        THEN IF retries > 0
                THEN [kind |-> "retry", exc |-> "", value |-> None, retries |-> retries - 1]
             ELSE IF raise_on_error
                THEN [kind |-> "raise", exc |-> NoJsonMessage, value |-> None, retries |-> retries]
                ELSE [kind |-> "return", exc |-> "", value |-> None, retries |-> retries]
    ELSE [kind |-> "return", exc |-> "", value |-> "json", retries |-> retries]

invoke_claude_model(retries, return_json_only, raise_on_error, resp) ==
    IF resp.kind = "network_error"
        \* bedrock_client.invoke_model raises: nothing here catches it
        THEN [kind |-> "raise", exc |-> NetworkMessage, value |-> None, retries |-> retries]
    ELSE IF ~return_json_only
        THEN [kind |-> "return", exc |-> "", value |-> "response_body", retries |-> retries]
    ELSE IF resp.kind = "no_json"
        THEN IF retries > 0
                THEN [kind |-> "retry", exc |-> "", value |-> None, retries |-> retries - 1]
             ELSE IF raise_on_error
                THEN [kind |-> "raise", exc |-> NoJsonMessage, value |-> None, retries |-> retries]
                ELSE [kind |-> "return", exc |-> "", value |-> None, retries |-> retries]
    ELSE [kind |-> "return", exc |-> "", value |-> "json", retries |-> retries]

(***************************************************************************)
(* The two-step rule protocol.  A machine record is the position of one    *)
(* evaluate_rule activation: pc is the protocol step whose bedrock call is *)
(* outstanding ("extract", "validate") or "done"; last and last_step       *)
(* remember the response that ended the evaluation.                        *)
(***************************************************************************)
ExtractRetries == 1      \* retries=1 in _extract_rule_fields
ValidateRetries == 1     \* retries=1 in _validate_rule

IdleMachine ==
    [pc |-> "idle", retries |-> 0, extracted_fields |-> None,
     status |-> "", message |-> "", last |-> NoResponse, last_step |-> ""]

Waiting(step, retries, extracted) ==
    [pc |-> step, retries |-> retries, extracted_fields |-> extracted,
     status |-> "", message |-> "", last |-> NoResponse, last_step |-> ""]

Finished(status, message, extracted, resp, step) ==
    [pc |-> "done", retries |-> 0, extracted_fields |-> extracted,
     status |-> status, message |-> message, last |-> resp, last_step |-> step]

Return(status, message) == [kind |-> "return", status |-> status, message |-> message, exc |-> ""]
Raise(exc) == [kind |-> "raise", status |-> "", message |-> "", exc |-> exc]

\* _extract_rule_fields after its invoke_claude_model call returned `value`
extract_rule_fields(value, resp) ==
    IF value = None THEN None
    ELSE IF "fields" \in resp.keys THEN resp.fields      \* response_json.get('fields', {})
    ELSE "empty"

\* _validate_rule after its invoke_claude_model call returned `value`
validate_rule(value, resp) ==
    IF value = None THEN Return("ERROR", NoJsonMessage)
    ELSE IF "status" \notin resp.keys THEN Raise("'status'")          \* KeyError
    ELSE IF "reasoning" \notin resp.keys THEN Raise("'reasoning'")    \* KeyError
    ELSE Return(resp.status, resp.status \o " - " \o resp.reasoning)

\* the except clause of evaluate_llm_rule
LlmHandlerFail(outcome) ==
    IF outcome.kind = "raise"
        THEN Return("FAIL", "LLM evaluation error: " \o outcome.exc)
        ELSE outcome

evaluate_llm_rule_except(outcome) ==
    IF outcome.kind = "raise"
        THEN Return("ERROR", "LLM evaluation error: " \o outcome.exc)
        ELSE outcome

\* the tail of evaluate_rule: the try block's assignments and its except clause
evaluate_rule_result(outcome) ==
    IF outcome.kind = "raise"
        THEN [status |-> "ERROR", message |-> "Error evaluating rule: " \o outcome.exc]
        ELSE [status |-> outcome.status, message |-> outcome.message]

Done(outcome, extracted, resp, step) ==
    LET result == evaluate_rule_result(evaluate_llm_rule_except(outcome))
    IN  Finished(result.status, result.message, extracted, resp, step)

\* evaluate_rule from its call to its first bedrock call, or to its return
\* when the rule makes none
evaluate_rule(rule) ==
    IF rule.type = "llm"
        THEN IF rule.fields_to_extract # <<>>
                THEN Waiting("extract", ExtractRetries, None)
                ELSE Waiting("validate", ValidateRetries, None)
        ELSE Finished("SKIP",
                      "Unsupported rule type: " \o rule.type \o ". Only \"llm\" is supported.",
                      None, NoResponse, "")

\* evaluate_rule resumed with the response of the outstanding bedrock call,
\* up to the next bedrock call or to its return
evaluate_rule_resume(mach, resp) ==
    LET out == invoke_claude_model(mach.retries, TRUE, TRUE, resp)
    IN  IF out.kind = "retry"
            THEN [mach EXCEPT !.retries = out.retries]
        ELSE IF out.kind = "raise"
            THEN Done(Raise(out.exc), mach.extracted_fields, resp, mach.pc)
        ELSE IF mach.pc = "extract"
            THEN LET extracted == extract_rule_fields(out.value, resp)
                 IN  IF extracted = None
                        THEN Done(Return("ERROR", NoJsonMessage \o " (field extraction)"),
                                  extracted, resp, "extract")
                        ELSE Waiting("validate", ValidateRetries, extracted)
        ELSE Done(validate_rule(out.value, resp), mach.extracted_fields, resp, "validate")

(***************************************************************************)
(* Python strings are sequences of one-character strings.                  *)
(***************************************************************************)
NL == "\n"

Strings(alphabet, n) == UNION {[1..k -> alphabet] : k \in 0..n}

\* sub in s
Contains(s, sub) ==
    \E i \in 0..(Len(s) - Len(sub)) : SubSeq(s, i + 1, i + Len(sub)) = sub

\* s.find(sub) as a 1-based position, 0 when sub does not occur (Python's -1)
Find(s, sub) ==
    IF Contains(s, sub)
        THEN CHOOSE i \in 1..(Len(s) - Len(sub) + 1) :
                /\ SubSeq(s, i, i + Len(sub) - 1) = sub
                /\ \A j \in 1..(i - 1) : SubSeq(s, j, j + Len(sub) - 1) # sub
        ELSE 0

\* text.split('\n')
RECURSIVE SplitLines(_)
SplitLines(text) ==
    LET p == Find(text, <<NL>>)
    IN  IF p = 0 THEN <<text>>
        ELSE <<SubSeq(text, 1, p - 1)>> \o SplitLines(SubSeq(text, p + 1, Len(text)))

\* '\n'.join(lines)
RECURSIVE JoinLines(_)
JoinLines(lines) ==
    IF lines = <<>> THEN <<>>
    ELSE IF Len(lines) = 1 THEN lines[1]
    ELSE lines[1] \o <<NL>> \o JoinLines(Tail(lines))

NoData == [text |-> <<>>, lines_text |-> <<>>]
NoChartConfig == [has_delimiter |-> FALSE, encounter_delimiter |-> <<>>]

IdleSplit ==
    /\ extracted_data = NoData
    /\ chart_config = NoChartConfig
    /\ is_irp = FALSE
    /\ encounters = <<>>
    /\ split_pc = "idle"

NoScan ==
    [start |-> 0, i |-> 0, brace_count |-> 0, in_string |-> FALSE,
     escape_next |-> FALSE, found |-> FALSE, json_str |-> <<>>]

IdleJson ==
    /\ json_text = <<>>
    /\ scan = NoScan
    /\ json_pc = "idle"

\* the empty dict
EmptyDict == [n \in {} |-> <<>>]

IdleFields ==
    /\ fx_text = <<>>
    /\ field_mappings = EmptyDict
    /\ fields = EmptyDict
    /\ fx_pc = "idle"

NoNormData == [text |-> <<>>, lines |-> <<>>, lines_text |-> <<>>]

IdleNorm ==
    /\ response = [Blocks |-> <<>>]
    /\ form_pairs = <<>>
    /\ norm_data = NoNormData
    /\ norm_pc = "idle"

IdleReport ==
    /\ items = <<>>
    /\ csv_rows = <<>>
    /\ report_pc = "idle"

NoStoredConfig == [present |-> FALSE, rules |-> <<>>, field_mappings |-> {}]
NoConfig == [rules |-> <<>>, field_mappings |-> {}]
NoLog ==
    [cause |-> "", failed_at |-> 0, reads |-> <<>>, stores |-> <<>>,
     store_failed |-> {}, completed |-> <<>>]
NoReport == [saved |-> FALSE, records |-> {}]
NoResult == [statusCode |-> 0, message |-> "", keys |-> {}, files_processed |-> 0]

IdleRun ==
    /\ handler = "none"
    /\ stored_config = NoStoredConfig
    /\ contents = <<>>
    /\ run_config = NoConfig
    /\ obj_idx = 0
    /\ table = {}
    /\ clock = 0
    /\ files_processed = 0
    /\ run_log = NoLog
    /\ csv_report = NoReport
    /\ handler_result = NoResult
    /\ run_pc = "idle"

\* process_file not called: no key, an empty bucket
NoKey == <<>>

IdleFile ==
    /\ file_key = NoKey
    /\ file_rules = 0
    /\ rules_completed = 0
    /\ file_bucket = {}
    /\ store_calls = 0
    /\ items_written = 0
    /\ file_steps = <<>>
    /\ file_pc = "idle"

\* no manifest written, and the bucket before process_and_store_results
NoManifest == [written |-> FALSE, encounter_count |-> 0, encounter_files |-> <<>>]

EmptyBucket ==
    [objects |-> {}, puts |-> <<>>, manifest |-> NoManifest,
     source_present |-> TRUE, archived |-> FALSE]

IdleStore ==
    /\ normalized = NoData
    /\ store_config = NoChartConfig
    /\ store_encounters = <<>>
    /\ enc_idx = 0
    /\ encounter_files = <<>>
    /\ store_s3 = EmptyBucket
    /\ store_cause = "none"
    /\ store_pc = "idle"

\* no chart text given to a model call yet
NoInput == [from_text |-> FALSE, text |-> <<>>, fields |-> EmptyDict, given |-> FALSE]

IdleFrame ==
    /\ engine = "asset"
    /\ doc_text = <<>>
    /\ shared_fields = EmptyDict
    /\ model_input = <<>>
    /\ frame_record = EmptyDict
    /\ frame_pc = "idle"

\* the two executions SpecOrder compares
Executions == {1, 2}

IdleOrder ==
    /\ evaluated = <<>>
    /\ completion = [x \in Executions |-> <<>>]
    /\ stored_record = [x \in Executions |-> <<>>]
    /\ run_csv = [x \in Executions |-> <<>>]
    /\ order_pc = [x \in Executions |-> "idle"]

\* json.loads raising JSONDecodeError, or no JSON string to load
NoObject == [parsed |-> FALSE, keys |-> {}]

IdleRecover ==
    /\ response_body = <<>>
    /\ extracted_json = NoObject
    /\ recover_pc = "idle"

(***************************************************************************)
(* SpecRule: one call of evaluate_rule on one rule, or one direct call of  *)
(* invoke_claude_model with any retries argument.                          *)
(***************************************************************************)
RuleTypes == {"llm", "regex"}
FieldLists == {<<>>, <<"service_date">>}
RuleConfigs == [type : RuleTypes, fields_to_extract : FieldLists]

NoRule == [type |-> "none", fields_to_extract |-> <<>>]
NoCalls == [extract |-> 0, validate |-> 0]
IdleInv ==
    [state |-> "idle", retries |-> 0, retries0 |-> 0, return_json_only |-> FALSE,
     raise_on_error |-> FALSE, attempts |-> 0, calls |-> 0, value |-> None, exc |-> "",
     last |-> NoResponse]

IdleRule ==
    /\ rule_config = NoRule
    /\ m = IdleMachine
    /\ calls = NoCalls
    /\ inv = IdleInv

NoRecord ==
    [summary |-> [total_rules |-> 0, passed |-> 0, failed |-> 0, skipped |-> 0],
     rules |-> <<>>]

IdleEngine ==
    /\ rules = <<>>
    /\ main_pc = "idle"
    /\ max_workers = 0
    /\ queue = <<>>
    /\ future = <<>>
    /\ rule_results = <<>>
    /\ called = {}
    /\ record = NoRecord

InitRule ==
    /\ \/ /\ rule_config \in RuleConfigs
          /\ m = evaluate_rule(rule_config)
          /\ calls = NoCalls
          /\ inv = IdleInv
       \/ /\ rule_config = NoRule
          /\ m = IdleMachine
          /\ calls = NoCalls
          /\ \E r \in 0..MaxRetries, j \in BOOLEAN, e \in BOOLEAN :
               inv = [IdleInv EXCEPT !.state = "running", !.retries = r, !.retries0 = r,
                                     !.return_json_only = j, !.raise_on_error = e]
    /\ IdleEngine
    /\ IdleSplit
    /\ IdleJson
    /\ IdleFields
    /\ IdleNorm
    /\ IdleReport
    /\ IdleRun
    /\ IdleRecover
    /\ IdleOrder
    /\ IdleFrame
    /\ IdleStore
    /\ IdleFile

\* one bedrock call of the rule under evaluation and what follows it
RuleAttempt(resp) ==
    /\ m.pc \in {"extract", "validate"}
    /\ m' = evaluate_rule_resume(m, resp)
    /\ calls' = [calls EXCEPT ![m.pc] = @ + 1]
    /\ UNCHANGED <<rule_config, inv, engineVars, splitVars, jsonVars, fieldVars, normVars, reportVars, runVars, recoverVars, orderVars, frameVars, storeVars, fileVars>>

\* one attempt of the direct invocation
ClientAttempt(resp) ==
    /\ inv.state = "running"
    /\ LET out == invoke_claude_model(inv.retries, inv.return_json_only,
                                      inv.raise_on_error, resp)
       IN  inv' = [inv EXCEPT
                    !.attempts = @ + 1,
                    !.calls = @ + 1,
                    !.retries = out.retries,
                    !.state = IF out.kind = "retry" THEN "running"
                              ELSE IF out.kind = "raise" THEN "raised" ELSE "returned",
                    !.value = out.value,
                    !.exc = out.exc,
                    !.last = resp]
    /\ UNCHANGED <<rule_config, m, calls, engineVars, splitVars, jsonVars, fieldVars, normVars, reportVars, runVars, recoverVars, orderVars, frameVars, storeVars, fileVars>>

NextRule ==
    \/ \E resp \in Responses : RuleAttempt(resp)
    \/ \E resp \in Responses : ClientAttempt(resp)

SpecRule == InitRule /\ [][NextRule]_vars

(***************************************************************************)
(* validate_document: the enabled rules are submitted to a pool of         *)
(* min(3, number of enabled rules) worker threads; the main thread         *)
(* collects the futures as they complete and returns the record.           *)
(***************************************************************************)
MaxWorkersCap == 3       \* min(3, len(enabled_rules))

Min(a, b) == IF a < b THEN a ELSE b

\* rule.get('enabled', True) over config['rules'], as indices in list order
RECURSIVE EnabledFrom(_, _)
EnabledFrom(rs, i) ==
    IF i > Len(rs) THEN <<>>
    ELSE IF rs[i].enabled THEN <<i>> \o EnabledFrom(rs, i + 1)
    ELSE EnabledFrom(rs, i + 1)

enabled_rules == EnabledFrom(rules, 1)

Running == {i \in DOMAIN future : future[i].pc \in {"extract", "validate"}}

CollectedIds == {rule_results[k].rule_id : k \in DOMAIN rule_results}

CountStatus(results, s) == Cardinality({k \in DOMAIN results : results[k].status = s})

\* the summary and record built at the end of validate_document
Summarize(results) ==
    [summary |-> [total_rules |-> Len(results),
                  passed |-> CountStatus(results, "PASS"),
                  failed |-> CountStatus(results, "FAIL"),
                  skipped |-> CountStatus(results, "SKIP")],
     rules |-> results]

\* future.result() in the as_completed loop and the entry appended for it
\* (a future that holds an exception gives the ERROR entry of lines 127-135)
FutureResult(i, mach) ==
    IF mach.pc = "raised"
        THEN [rule_id |-> i, status |-> "ERROR",
              message |-> "Exception during parallel execution: " \o mach.message]
        ELSE [rule_id |-> i, status |-> mach.status, message |-> mach.message]

\* no enabled rule: rule_results = [] and the record is returned at once
ValidateEmpty ==
    /\ main_pc = "start"
    /\ enabled_rules = <<>>
    /\ rule_results' = <<>>
    /\ record' = Summarize(<<>>)
    /\ main_pc' = "returned"
    /\ UNCHANGED <<rules, max_workers, queue, future, called, ruleVars, splitVars, jsonVars, fieldVars, normVars, reportVars, runVars, recoverVars, orderVars, frameVars, storeVars, fileVars>>

\* the executor is created and every enabled rule is submitted
SubmitAll ==
    /\ main_pc = "start"
    /\ enabled_rules # <<>>
    /\ max_workers' = Min(MaxWorkersCap, Len(enabled_rules))
    /\ queue' = enabled_rules
    /\ rule_results' = <<>>
    /\ main_pc' = "collecting"
    /\ UNCHANGED <<rules, future, called, record, ruleVars, splitVars, jsonVars, fieldVars, normVars, reportVars, runVars, recoverVars, orderVars, frameVars, storeVars, fileVars>>

\* a worker thread takes the next work item and runs evaluate_rule up to its
\* first bedrock call (or to its return)
WorkerStartNoCap(i) ==
    /\ queue # <<>>
    /\ i = Head(queue)
    /\ queue' = Tail(queue)
    /\ future' = [future EXCEPT ![i] = evaluate_rule(rules[i])]
    /\ UNCHANGED <<rules, main_pc, max_workers, rule_results, called, record, ruleVars, splitVars, jsonVars, fieldVars, normVars, reportVars, runVars, recoverVars, orderVars, frameVars, storeVars, fileVars>>

WorkerStart(i) ==
    /\ queue # <<>>
    /\ i = Head(queue)
    /\ Cardinality(Running) < max_workers
    /\ queue' = Tail(queue)
    /\ future' = [future EXCEPT ![i] = evaluate_rule(rules[i])]
    /\ UNCHANGED <<rules, main_pc, max_workers, rule_results, called, record, ruleVars, splitVars, jsonVars, fieldVars, normVars, reportVars, runVars, recoverVars, orderVars, frameVars, storeVars, fileVars>>

\* the outstanding bedrock call of rule i answers and its worker carries on
WorkerCall(i, resp) ==
    /\ i \in Running
    /\ future' = [future EXCEPT ![i] = evaluate_rule_resume(future[i], resp)]
    /\ called' = called \cup {i}
    /\ UNCHANGED <<rules, main_pc, max_workers, queue, rule_results, record, ruleVars, splitVars, jsonVars, fieldVars, normVars, reportVars, runVars, recoverVars, orderVars, frameVars, storeVars, fileVars>>

\* as_completed yields a finished future and its result is appended
Collect(i) ==
    /\ main_pc = "collecting"
    /\ i \in DOMAIN future
    /\ future[i].pc \in {"done", "raised"}
    /\ i \notin CollectedIds
    /\ rule_results' = Append(rule_results, FutureResult(i, future[i]))
    /\ UNCHANGED <<rules, main_pc, max_workers, queue, future, called, record, ruleVars, splitVars, jsonVars, fieldVars, normVars, reportVars, runVars, recoverVars, orderVars, frameVars, storeVars, fileVars>>

\* as_completed is exhausted, the pool is shut down, the record is returned
ValidateReturnEarly ==
    /\ main_pc = "collecting"
    /\ rule_results # <<>>
    /\ record' = Summarize(rule_results)
    /\ main_pc' = "returned"
    /\ UNCHANGED <<rules, max_workers, queue, future, rule_results, called, ruleVars, splitVars, jsonVars, fieldVars, normVars, reportVars, runVars, recoverVars, orderVars, frameVars, storeVars, fileVars>>

ValidateReturn ==
    /\ main_pc = "collecting"
    /\ \A k \in DOMAIN enabled_rules : enabled_rules[k] \in CollectedIds
    /\ record' = Summarize(rule_results)
    /\ main_pc' = "returned"
    /\ UNCHANGED <<rules, max_workers, queue, future, rule_results, called, ruleVars, splitVars, jsonVars, fieldVars, normVars, reportVars, runVars, recoverVars, orderVars, frameVars, storeVars, fileVars>>

\* the rule configurations and model responses SpecEngine draws from
EngineRule(enabled, type, to_extract) ==
    [enabled |-> enabled, type |-> type, fields_to_extract |-> to_extract]

EngineRuleConfigs ==
    { EngineRule(TRUE, "llm", <<>>),
      EngineRule(TRUE, "llm", <<"service_date">>),
      EngineRule(TRUE, "regex", <<>>),
      EngineRule(FALSE, "llm", <<>>) }

EngineResponses ==
    { NetworkError, NoJson, Verdict("PASS"), Verdict("FAIL"), Verdict("MAYBE"),
      Resp("json", {"reasoning"}, "", ""),
      Resp("json", {"fields"}, "", None) }

RuleLists(n, configs) == UNION {[1..k -> configs] : k \in 0..n}

EngineStart(rs) ==
    /\ rules = rs
    /\ main_pc = "start"
    /\ max_workers = 0
    /\ queue = <<>>
    /\ future = [i \in DOMAIN rs |-> IdleMachine]
    /\ rule_results = <<>>
    /\ called = {}
    /\ record = NoRecord

InitEngine ==
    /\ \E rs \in RuleLists(MaxRules, EngineRuleConfigs) : EngineStart(rs)
    /\ IdleRule
    /\ IdleSplit
    /\ IdleJson
    /\ IdleFields
    /\ IdleNorm
    /\ IdleReport
    /\ IdleRun
    /\ IdleRecover
    /\ IdleOrder
    /\ IdleFrame
    /\ IdleStore
    /\ IdleFile

NextEngine ==
    \/ ValidateEmpty
    \/ SubmitAll
    \/ \E i \in DOMAIN rules : WorkerStart(i)
    \/ \E i \in DOMAIN rules, resp \in EngineResponses : WorkerCall(i, resp)
    \/ \E i \in DOMAIN rules : Collect(i)
    \/ ValidateReturn

SpecEngine == InitEngine /\ [][NextEngine]_vars

(***************************************************************************)
(* SpecPool: the same validate_document with more rules than workers; the  *)
(* model either fails or passes each rule.  Threads are scheduled fairly   *)
(* and every bedrock call ends (with a response or an error).              *)
(***************************************************************************)
PoolRuleConfigs == {EngineRule(TRUE, "llm", <<>>), EngineRule(FALSE, "llm", <<>>)}

PoolResponses == {NetworkError, Verdict("PASS")}

InitPool ==
    /\ \E rs \in RuleLists(MaxPoolRules, PoolRuleConfigs) : EngineStart(rs)
    /\ IdleRule
    /\ IdleSplit
    /\ IdleJson
    /\ IdleFields
    /\ IdleNorm
    /\ IdleReport
    /\ IdleRun
    /\ IdleRecover
    /\ IdleOrder
    /\ IdleFrame
    /\ IdleStore
    /\ IdleFile

NextPool ==
    \/ ValidateEmpty
    \/ SubmitAll
    \/ \E i \in DOMAIN rules : WorkerStart(i)
    \/ \E i \in DOMAIN rules, resp \in PoolResponses : WorkerCall(i, resp)
    \/ \E i \in DOMAIN rules : Collect(i)
    \/ ValidateReturn

SpecPool == InitPool /\ [][NextPool]_vars /\ WF_vars(NextPool)

(***************************************************************************)
(* Properties of the rule evaluation engine.                               *)
(***************************************************************************)
ResultsOf(i) == {k \in DOMAIN record.rules : record.rules[k].rule_id = i}

ResultOf(i) == record.rules[CHOOSE k \in ResultsOf(i) : TRUE]

\* the model invocation of a finished rule raised: the bedrock call failed,
\* JSON recovery was exhausted, or the verdict object lacks a required key
ModelRaised(mach) ==
    \/ mach.last.kind \in {"network_error", "no_json"}
    \/ /\ mach.last_step = "validate"
       /\ mach.last.kind = "json"
       /\ ~({"status", "reasoning"} \subseteq mach.last.keys)

\* the model gave a verdict object for a finished rule
ModelVerdict(mach) ==
    /\ mach.last_step = "validate"
    /\ mach.last.kind = "json"
    /\ {"status", "reasoning"} \subseteq mach.last.keys

\* C1: when validate_document has returned, every enabled rule has exactly one
\* result; a rule whose model invocation raised has status ERROR and a rule
\* whose invocation gave a verdict has that verdict's status, whatever happened
\* to its siblings.
C1_FailureIsolation ==
    main_pc = "returned" =>
        \A i \in DOMAIN rules :
            rules[i].enabled =>
                /\ Cardinality(ResultsOf(i)) = 1
                /\ future[i].pc = "done"
                /\ ModelRaised(future[i]) => ResultOf(i).status = "ERROR"
                /\ ModelVerdict(future[i]) => ResultOf(i).status = future[i].last.status

\* a run that returned with one rule failed and a sibling passed
C1_Witness ==
    /\ main_pc = "returned"
    /\ \E i, j \in DOMAIN rules :
        /\ i # j
        /\ rules[i].enabled /\ rules[j].enabled
        /\ ModelRaised(future[i])
        /\ ModelVerdict(future[j]) /\ future[j].last.status = "PASS"

\* C2: validate_document returns only when every submitted evaluation is
\* finished; the returned list has one result per enabled rule and none for a
\* disabled rule; with no enabled rule the list is empty, the summary is all
\* zero and no bedrock call was made.
C2_JoinBarrier ==
    main_pc = "returned" =>
        /\ queue = <<>>
        /\ Running = {}
        /\ \A i \in DOMAIN rules :
            Cardinality(ResultsOf(i)) = IF rules[i].enabled THEN 1 ELSE 0
        /\ Len(record.rules) = Len(enabled_rules)
        /\ \A i \in DOMAIN rules : ~rules[i].enabled => i \notin called
        /\ enabled_rules = <<>> =>
            /\ record.rules = <<>>
            /\ record.summary = [total_rules |-> 0, passed |-> 0, failed |-> 0, skipped |-> 0]
            /\ called = {}

\* a run with two enabled rules has returned both results
C2_Witness ==
    /\ main_pc = "returned"
    /\ Len(enabled_rules) = 2
    /\ Len(record.rules) = 2

\* C7: in the returned record total_rules is the number of results, passed,
\* failed and skipped count the PASS, FAIL and SKIP results, and together with
\* the ERROR results they add up to total_rules.
C7_SummaryCounts ==
    main_pc = "returned" =>
        /\ record.summary.total_rules = Len(record.rules)
        /\ record.summary.passed = CountStatus(record.rules, "PASS")
        /\ record.summary.failed = CountStatus(record.rules, "FAIL")
        /\ record.summary.skipped = CountStatus(record.rules, "SKIP")
        /\ record.summary.passed + record.summary.failed + record.summary.skipped
             + CountStatus(record.rules, "ERROR") = record.summary.total_rules

\* the evaluations running at once fit the pool
PoolBound == Cardinality(Running) <= Min(MaxWorkersCap, Len(enabled_rules))

\* every enabled rule was started and has finished
AllFinished == \A i \in DOMAIN rules : rules[i].enabled => future[i].pc = "done"

\* C4: the number of rule evaluations running at once never exceeds
\* min(worker cap, number of enabled rules), and every enabled rule is
\* eventually started and finished.
C4_BoundedPool == []PoolBound /\ <>AllFinished

\* the pool is full and a rule is still waiting for a worker
C4_Witness ==
    /\ Cardinality(Running) = MaxWorkersCap
    /\ queue # <<>>

(***************************************************************************)
(* Properties of one rule evaluation and of the invocation client.         *)
(***************************************************************************)
\* C3: an invocation with retries = r makes one bedrock call per attempt and
\* at most r + 1 attempts; a protocol step makes at most 2 calls, a rule with
\* fields to extract at most 4 and a rule without at most 2.
C3_BoundedAttempts ==
    /\ inv.calls = inv.attempts
    /\ inv.attempts <= inv.retries0 + 1
    /\ calls.extract <= ExtractRetries + 1
    /\ calls.validate <= ValidateRetries + 1
    /\ calls.extract + calls.validate <= 4
    /\ rule_config.fields_to_extract = <<>> => calls.extract = 0 /\ calls.validate <= 2

\* a rule with fields to extract that used both attempts of both steps
C3_Witness ==
    /\ m.pc = "done"
    /\ rule_config.fields_to_extract # <<>>
    /\ calls.extract = 2
    /\ calls.validate = 2

\* C5: when the extraction step of a rule with fields to extract finds no JSON
\* after its retries, the result is ERROR with the message
\* "No JSON found in Claude response (field extraction)" and the validation
\* step makes no bedrock call.
C5_ExtractionNoJson ==
    (m.pc = "done" /\ m.last_step = "extract" /\ m.last.kind = "no_json") =>
        /\ m.status = "ERROR"
        /\ m.message = "No JSON found in Claude response (field extraction)"
        /\ calls.validate = 0

\* C6: every rule result has a status in {PASS, FAIL, SKIP, ERROR}, and a
\* verdict with status s in {PASS, FAIL, SKIP} and reasoning r gives status s
\* and message "s - r".
C6_StatusInEnum ==
    m.pc = "done" =>
        /\ m.status \in Statuses
        /\ (ModelVerdict(m) /\ m.last.status \in {"PASS", "FAIL", "SKIP"}) =>
            /\ m.status = m.last.status
            /\ m.message = m.last.status \o " - " \o m.last.reasoning

(***************************************************************************)
(* split_into_encounters: the delimiter lines of the forms text (of the    *)
(* lines text when there is no forms text) start the encounters.           *)
(* Line indices are 0-based as in the code.                                *)
(***************************************************************************)
TextAlphabet == {"D", "x", NL}

\* stands for the default delimiter 'Consumer Service ID:'
DefaultDelimiter == <<"D">>

\* [idx for idx, line in enumerate(lines) if delimiter_field in line]
RECURSIVE DelimiterIndicesFrom(_, _, _)
DelimiterIndicesFrom(lines, delimiter_field, k) ==
    IF k > Len(lines) THEN <<>>
    ELSE IF Contains(lines[k], delimiter_field)
        THEN <<k - 1>> \o DelimiterIndicesFrom(lines, delimiter_field, k + 1)
        ELSE DelimiterIndicesFrom(lines, delimiter_field, k + 1)

DelimiterIndices(lines, delimiter_field) == DelimiterIndicesFrom(lines, delimiter_field, 1)

\* end_idx of encounter i (0-based) among the delimiter indices
EndIdxDropsLastLine(delimiter_indices, i, line_count) ==
    IF i + 1 < Len(delimiter_indices) THEN delimiter_indices[i + 2] ELSE line_count - 1

\* an end index that takes in the next encounter's delimiter line
EndIdxOverlaps(delimiter_indices, i, line_count) ==
    IF i + 1 < Len(delimiter_indices) THEN delimiter_indices[i + 2] + 1 ELSE line_count

EndIdx(delimiter_indices, i, line_count) ==
    IF i + 1 < Len(delimiter_indices) THEN delimiter_indices[i + 2] ELSE line_count

\* a split that decides whether to split on the delimiter count of the lines text
SplitOnLineTextCount(data, delimiter_field) ==
    LET lines_text == data.lines_text
        forms_text == data.text
        line_text_lines == SplitLines(lines_text)
        line_delimiter_indices == DelimiterIndices(line_text_lines, delimiter_field)
        content_text == IF forms_text # <<>> THEN forms_text ELSE lines_text
        content_lines == IF forms_text # <<>> THEN SplitLines(forms_text) ELSE line_text_lines
        delimiter_indices ==
            IF forms_text # <<>>
                THEN DelimiterIndices(content_lines, delimiter_field)
                ELSE line_delimiter_indices
    IN  IF Len(line_delimiter_indices) <= 1
            THEN << [text |-> content_text,
                     metadata |-> [encounter_index |-> 0,
                                   is_split_encounter |-> FALSE,
                                   line_count |-> Len(content_lines)]] >>
            ELSE [k \in 1..Len(delimiter_indices) |->
                    LET i == k - 1
                        start_idx == delimiter_indices[k]
                        end_idx == EndIdx(delimiter_indices, i, Len(content_lines))
                        encounter_lines == SubSeq(content_lines, start_idx + 1, end_idx)
                    IN  [text |-> JoinLines(encounter_lines),
                         metadata |-> [encounter_index |-> i,
                                       is_split_encounter |-> TRUE,
                                       line_count |-> Len(encounter_lines),
                                       start_line |-> start_idx,
                                       end_line |-> end_idx,
                                       total_delimiters_in_line_blocks |->
                                            Len(line_delimiter_indices)]]]

split_into_encounters_text_based(data, delimiter_field) ==
    LET lines_text == data.lines_text
        forms_text == data.text
        line_text_lines == SplitLines(lines_text)
        line_delimiter_indices == DelimiterIndices(line_text_lines, delimiter_field)
        content_text == IF forms_text # <<>> THEN forms_text ELSE lines_text
        content_lines == IF forms_text # <<>> THEN SplitLines(forms_text) ELSE line_text_lines
        delimiter_indices ==
            IF forms_text # <<>>
                THEN DelimiterIndices(content_lines, delimiter_field)
                ELSE line_delimiter_indices
    IN  IF Len(delimiter_indices) <= 1
            THEN << [text |-> content_text,
                     metadata |-> [encounter_index |-> 0,
                                   is_split_encounter |-> FALSE,
                                   line_count |-> Len(content_lines)]] >>
            ELSE [k \in 1..Len(delimiter_indices) |->
                    LET i == k - 1
                        start_idx == delimiter_indices[k]
                        end_idx == EndIdx(delimiter_indices, i, Len(content_lines))
                        encounter_lines == SubSeq(content_lines, start_idx + 1, end_idx)
                    IN  [text |-> JoinLines(encounter_lines),
                         metadata |-> [encounter_index |-> i,
                                       is_split_encounter |-> TRUE,
                                       line_count |-> Len(encounter_lines),
                                       start_line |-> start_idx,
                                       end_line |-> end_idx,
                                       total_delimiters_in_line_blocks |->
                                            Len(line_delimiter_indices)]]]

split_into_encounters(data, irp, config) ==
    IF irp
        THEN << [text |-> data.text,
                 metadata |-> [encounter_index |-> 0, is_split_encounter |-> FALSE]] >>
        ELSE LET delimiter == IF config.has_delimiter
                                THEN config.encounter_delimiter
                                ELSE DefaultDelimiter
             IN  split_into_encounters_text_based(data, delimiter)

ChartConfigs ==
    { NoChartConfig, [has_delimiter |-> TRUE, encounter_delimiter |-> <<"D", "x">>] }

InitSplit ==
    /\ extracted_data \in [text : Strings(TextAlphabet, MaxFormsLen),
                           lines_text : Strings(TextAlphabet, MaxLinesLen)]
    /\ chart_config \in ChartConfigs
    /\ is_irp \in BOOLEAN
    /\ encounters = <<>>
    /\ split_pc = "call"
    /\ IdleRule
    /\ IdleEngine
    /\ IdleJson
    /\ IdleFields
    /\ IdleNorm
    /\ IdleReport
    /\ IdleRun
    /\ IdleRecover
    /\ IdleOrder
    /\ IdleFrame
    /\ IdleStore
    /\ IdleFile

SplitIntoEncounters ==
    /\ split_pc = "call"
    /\ encounters' = split_into_encounters(extracted_data, is_irp, chart_config)
    /\ split_pc' = "returned"
    /\ UNCHANGED <<extracted_data, chart_config, is_irp, ruleVars, engineVars, jsonVars, fieldVars, normVars, reportVars, runVars, recoverVars, orderVars, frameVars, storeVars, fileVars>>

NextSplit == SplitIntoEncounters

SpecSplit == InitSplit /\ [][NextSplit]_vars

\* the transcript the split is decided on, its lines and its delimiter lines
AuthoritativeText ==
    IF extracted_data.text # <<>> THEN extracted_data.text ELSE extracted_data.lines_text

ConfiguredDelimiter ==
    IF chart_config.has_delimiter THEN chart_config.encounter_delimiter ELSE DefaultDelimiter

DelimiterLines ==
    {k \in DOMAIN SplitLines(AuthoritativeText) :
        Contains(SplitLines(AuthoritativeText)[k], ConfiguredDelimiter)}

FirstDelimiterLine == CHOOSE k \in DelimiterLines : \A j \in DelimiterLines : k <= j

EncounterTexts == [k \in DOMAIN encounters |-> encounters[k].text]

\* the transcript from the start of its first delimiter line to its end
FromFirstDelimiter ==
    JoinLines(SubSeq(SplitLines(AuthoritativeText), FirstDelimiterLine,
                     Len(SplitLines(AuthoritativeText))))

\* C8 as stated: with k >= 2 delimiter lines there are k encounters whose texts
\* joined with newlines are the whole transcript; with k <= 1 there is one
\* encounter holding the whole transcript.
C8_ReconstructsWholeTranscript ==
    (split_pc = "returned" /\ ~is_irp) =>
        IF Cardinality(DelimiterLines) >= 2
            THEN /\ Len(encounters) = Cardinality(DelimiterLines)
                 /\ JoinLines(EncounterTexts) = AuthoritativeText
            ELSE /\ Len(encounters) = 1
                 /\ encounters[1].text = AuthoritativeText

\* C8 amended: with k >= 2 delimiter lines there are k encounters whose texts
\* joined with newlines are the transcript from its first delimiter line to
\* its end (lines before the first delimiter line are in no encounter); with
\* k <= 1 there is one encounter holding the whole transcript.
C8_ReconstructsFromFirstDelimiter ==
    (split_pc = "returned" /\ ~is_irp) =>
        IF Cardinality(DelimiterLines) >= 2
            THEN /\ Len(encounters) = Cardinality(DelimiterLines)
                 /\ JoinLines(EncounterTexts) = FromFirstDelimiter
            ELSE /\ Len(encounters) = 1
                 /\ encounters[1].text = AuthoritativeText

\* a split document whose first delimiter line is not its first line
C8_Witness ==
    /\ split_pc = "returned"
    /\ ~is_irp
    /\ Cardinality(DelimiterLines) >= 2
    /\ FirstDelimiterLine > 1
    /\ Len(encounters) >= 2

(***************************************************************************)
(* _extract_complete_json: a scan from the first '{' that counts braces    *)
(* outside double-quoted strings.  Positions are 1-based; start = 0 is     *)
(* Python's -1.                                                            *)
(***************************************************************************)
LBrace == "{"
RBrace == "}"
Quote == "\""
Backslash == "\\"

JsonAlphabet == {LBrace, RBrace, Quote, Backslash, "a"}

\* prefix {"a": {"b": "}"}, "c": 1} suffix
ExampleText ==
    << "p", "r", "e", "f", "i", "x", " ",
       "{", "\"", "a", "\"", ":", " ",
       "{", "\"", "b", "\"", ":", " ", "\"", "}", "\"", "}", ",", " ",
       "\"", "c", "\"", ":", " ", "1", "}",
       " ", "s", "u", "f", "f", "i", "x" >>

\* one iteration of the for loop on character char: the new flags and count
\* and whether the function returns text[start:i+1] in this iteration
ScanCharCountsInStrings(st, char) ==
    IF st.escape_next
        THEN [st EXCEPT !.escape_next = FALSE]
    ELSE IF char = Backslash
        THEN [st EXCEPT !.escape_next = TRUE]
    ELSE IF char = Quote
        THEN [st EXCEPT !.in_string = ~st.in_string]
    ELSE IF char = LBrace
        THEN [st EXCEPT !.brace_count = @ + 1]
    ELSE IF char = RBrace
        THEN [st EXCEPT !.brace_count = @ - 1, !.found = (st.brace_count - 1 = 0)]
    ELSE st

ScanChar(st, char) ==
    IF st.escape_next
        THEN [st EXCEPT !.escape_next = FALSE]
    ELSE IF char = Backslash
        THEN [st EXCEPT !.escape_next = TRUE]
    ELSE IF char = Quote
        THEN [st EXCEPT !.in_string = ~st.in_string]
    ELSE IF ~st.in_string
        THEN IF char = LBrace
                THEN [st EXCEPT !.brace_count = @ + 1]
             ELSE IF char = RBrace
                THEN [st EXCEPT !.brace_count = @ - 1, !.found = (st.brace_count - 1 = 0)]
             ELSE st
    ELSE st

InitJson ==
    /\ json_text \in Strings(JsonAlphabet, MaxJsonLen) \cup {ExampleText}
    /\ scan = NoScan
    /\ json_pc = "call"
    /\ IdleRule
    /\ IdleEngine
    /\ IdleSplit
    /\ IdleFields
    /\ IdleNorm
    /\ IdleReport
    /\ IdleRun
    /\ IdleRecover
    /\ IdleOrder
    /\ IdleFrame
    /\ IdleStore
    /\ IdleFile

\* start = text.find('{'); return None when there is none
ScanStart ==
    /\ json_pc = "call"
    /\ LET start == Find(json_text, <<LBrace>>)
       IN  /\ scan' = [NoScan EXCEPT !.start = start, !.i = start]
           /\ json_pc' = IF start = 0 THEN "returned" ELSE "scan"
    /\ UNCHANGED <<json_text, ruleVars, engineVars, splitVars, fieldVars, normVars, reportVars, runVars, recoverVars, orderVars, frameVars, storeVars, fileVars>>

\* one iteration of the loop
ScanStep ==
    /\ json_pc = "scan"
    /\ scan.i <= Len(json_text)
    /\ LET st == ScanChar(scan, json_text[scan.i])
       IN  IF st.found
              THEN /\ scan' = [st EXCEPT !.json_str = SubSeq(json_text, scan.start, scan.i)]
                   /\ json_pc' = "returned"
              ELSE /\ scan' = [st EXCEPT !.i = @ + 1]
                   /\ json_pc' = "scan"
    /\ UNCHANGED <<json_text, ruleVars, engineVars, splitVars, fieldVars, normVars, reportVars, runVars, recoverVars, orderVars, frameVars, storeVars, fileVars>>

\* the loop ends without a return: return None
ScanEnd ==
    /\ json_pc = "scan"
    /\ scan.i > Len(json_text)
    /\ json_pc' = "returned"
    /\ UNCHANGED <<json_text, scan, ruleVars, engineVars, splitVars, fieldVars, normVars, reportVars, runVars, recoverVars, orderVars, frameVars, storeVars, fileVars>>

NextJson ==
    \/ ScanStart
    \/ ScanStep
    \/ ScanEnd

SpecJson == InitJson /\ [][NextJson]_vars

(***************************************************************************)
(* What the scan is to compute, stated by counting over positions instead  *)
(* of by running the scanner.                                              *)
(***************************************************************************)
\* position p is consumed by an unconsumed backslash right before it
RECURSIVE Escaped(_, _, _)
Escaped(t, s, p) == p > s /\ t[p - 1] = Backslash /\ ~Escaped(t, s, p - 1)

\* a character that is neither consumed by a backslash nor a backslash
Plain(t, s, p) == ~Escaped(t, s, p) /\ t[p] # Backslash

\* position p lies inside a double-quoted string
InsideString(t, s, p) ==
    Cardinality({q \in s..(p - 1) : t[q] = Quote /\ Plain(t, s, q)}) % 2 = 1

Counted(t, s, p, brace) == t[p] = brace /\ Plain(t, s, p) /\ ~InsideString(t, s, p)

\* depth after position p
Depth(t, s, p) ==
    Cardinality({q \in s..p : Counted(t, s, q, LBrace)})
        - Cardinality({q \in s..p : Counted(t, s, q, RBrace)})

\* p is a '}' outside a string at which the depth returns to zero
Closes(t, s, p) == Counted(t, s, p, RBrace) /\ Depth(t, s, p) = 0

\* the current character of a scan in progress
Scanning == json_pc = "scan" /\ scan.i <= Len(json_text)

CurrentChar == json_text[scan.i]

ScanInvariant ==
    /\ scan.brace_count >= 0
    /\ json_pc = "scan" =>
        /\ json_text[scan.start] = LBrace
        /\ \A q \in 1..(scan.start - 1) : json_text[q] # LBrace
        /\ scan.brace_count = Depth(json_text, scan.start, scan.i - 1)
        /\ \A q \in scan.start..(scan.i - 1) : ~Closes(json_text, scan.start, q)
    /\ Scanning =>
        /\ scan.escape_next = Escaped(json_text, scan.start, scan.i)
        /\ scan.in_string = InsideString(json_text, scan.start, scan.i)
    /\ json_pc = "returned" =>
        IF scan.found
            THEN /\ Closes(json_text, scan.start, scan.i)
                 /\ \A q \in scan.start..(scan.i - 1) : ~Closes(json_text, scan.start, q)
                 /\ scan.json_str = SubSeq(json_text, scan.start, scan.i)
            ELSE \/ ~Contains(json_text, <<LBrace>>)
                 \/ /\ scan.i = Len(json_text) + 1
                    /\ \A q \in scan.start..Len(json_text) : ~Closes(json_text, scan.start, q)
    /\ (json_pc = "returned" /\ json_text = ExampleText) =>
        /\ scan.found
        /\ scan.json_str = SubSeq(ExampleText, 8, 32)

\* a brace inside a string leaves the depth alone, and a quote after an
\* unconsumed backslash leaves the string state alone
ScanStepRule ==
    /\ (Scanning /\ scan.in_string /\ CurrentChar \in {LBrace, RBrace})
            => scan'.brace_count = scan.brace_count
    /\ (Scanning /\ scan.escape_next /\ CurrentChar = Quote)
            => scan'.in_string = scan.in_string

\* C9: the scan returns the text from the first '{' to the first '}' outside
\* a double-quoted string at which the depth is zero again; braces inside
\* strings and quotes after an unconsumed backslash change nothing, the depth
\* is never negative, and the result is none when there is no '{' or the depth
\* never returns to zero; the example text gives its full outer object.
C9_BraceBalancedScan == []ScanInvariant /\ [][ScanStepRule]_vars

\* the scan returned an object that holds a '}' inside a string
C9_Witness ==
    /\ json_pc = "returned"
    /\ scan.found
    /\ \E q \in scan.start..scan.i :
        /\ json_text[q] = RBrace
        /\ InsideString(json_text, scan.start, q)

(***************************************************************************)
(* extract_fields_from_text: for each field the first line that contains   *)
(* its label gives the value, the stripped text after the label.  The      *)
(* Python value None is the one-element sequence NoValue, which no string  *)
(* of characters equals.                                                   *)
(***************************************************************************)
NoValue == <<"None">>

FieldAlphabet == {"K", "v", " ", NL}

FieldNames == {"document_id", "consumer_name"}

\* labels: 'K', 'vK', and the empty label a configuration may hold
Labels == { <<"K">>, <<"v", "K">>, <<>> }

Whitespace == {" ", "\t", NL}

\* s.strip()
RECURSIVE LStrip(_)
LStrip(s) == IF s # <<>> /\ Head(s) \in Whitespace THEN LStrip(Tail(s)) ELSE s

RECURSIVE RStrip(_)
RStrip(s) ==
    IF s # <<>> /\ s[Len(s)] \in Whitespace THEN RStrip(SubSeq(s, 1, Len(s) - 1)) ELSE s

Strip(s) == RStrip(LStrip(s))

\* line.split(key_pattern, 1)[1]: the text after the first occurrence
AfterFirst(line, key_pattern) ==
    SubSeq(line, Find(line, key_pattern) + Len(key_pattern), Len(line))

\* the inner loop: the value of the first line containing key_pattern, or None
RECURSIVE ScanLines(_, _)
ScanLines(lines, key_pattern) ==
    IF lines = <<>> THEN NoValue
    ELSE IF Contains(Head(lines), key_pattern)
        THEN Strip(AfterFirst(Head(lines), key_pattern))
        ELSE ScanLines(Tail(lines), key_pattern)

\* fields[field_name] = value if value else None
StoreRaw(value) == value

Store(value) == IF value = <<>> \/ value = NoValue THEN NoValue ELSE value

\* str.split raises ValueError('empty separator') for an empty key_pattern,
\* which is "in" every line
Raises(text, mappings) ==
    /\ text # <<>>
    /\ \E f \in DOMAIN mappings : mappings[f] = <<>>

extract_fields_from_text(text, mappings) ==
    IF text = <<>> \/ DOMAIN mappings = {}
        THEN EmptyDict
        ELSE [f \in DOMAIN mappings |-> Store(ScanLines(SplitLines(text), mappings[f]))]

InitFields ==
    /\ fx_text \in Strings(FieldAlphabet, MaxFieldTextLen)
    /\ \E names \in SUBSET FieldNames : field_mappings \in [names -> Labels]
    /\ fields = EmptyDict
    /\ fx_pc = "call"
    /\ IdleRule
    /\ IdleEngine
    /\ IdleSplit
    /\ IdleJson
    /\ IdleNorm
    /\ IdleReport
    /\ IdleRun
    /\ IdleRecover
    /\ IdleOrder
    /\ IdleFrame
    /\ IdleStore
    /\ IdleFile

ExtractFieldsReturn ==
    /\ fx_pc = "call"
    /\ ~Raises(fx_text, field_mappings)
    /\ fields' = extract_fields_from_text(fx_text, field_mappings)
    /\ fx_pc' = "returned"
    /\ UNCHANGED <<fx_text, field_mappings, ruleVars, engineVars, splitVars, jsonVars, normVars, reportVars, runVars, recoverVars, orderVars, frameVars, storeVars, fileVars>>

ExtractFieldsRaise ==
    /\ fx_pc = "call"
    /\ Raises(fx_text, field_mappings)
    /\ fx_pc' = "raised"
    /\ UNCHANGED <<fx_text, field_mappings, fields, ruleVars, engineVars, splitVars, jsonVars, normVars, reportVars, runVars, recoverVars, orderVars, frameVars, storeVars, fileVars>>

NextFields ==
    \/ ExtractFieldsReturn
    \/ ExtractFieldsRaise

SpecFields == InitFields /\ [][NextFields]_vars

\* the label of field f occurs in no line of the text
LabelAbsent(f) ==
    \A k \in DOMAIN SplitLines(fx_text) :
        ~Contains(SplitLines(fx_text)[k], field_mappings[f])

MaxBlocks == 3           \* most LINE and KEY blocks of a response

Rel(type, ids) == [Type |-> type, Ids |-> ids]

Block(id, type, entity, page, top, text, rels) ==
    [Id |-> id, BlockType |-> type, EntityTypes |-> entity, Page |-> page,
     Top |-> top, Text |-> text, Relationships |-> rels]

\* the blocks every response of the model starts with
WordBlocks ==
    << Block("w1", "WORD", <<>>, 1, 0, <<"k">>, <<>>),
       Block("w2", "WORD", <<>>, 1, 0, <<"v">>, <<>>),
       Block("v1", "KEY_VALUE_SET", <<"VALUE">>, 1, 0, <<>>, <<Rel("CHILD", <<"w2">>)>>) >>

Pages == {1, 2}
Tops == {0, 1}

LineBlocks ==
    { Block("", "LINE", <<>>, p, t, txt, <<>>) :
        p \in Pages, t \in Tops, txt \in {<<"a">>, <<"b">>} }

KeyBlocks ==
    { Block("", "KEY_VALUE_SET", <<"KEY">>, p, t, <<>>, r) :
        p \in Pages, t \in Tops,
        r \in { <<Rel("CHILD", <<"w1">>)>>,
                <<Rel("CHILD", <<"w1">>), Rel("VALUE", <<"v1">>)>> } }
    \cup { Block("", "KEY_VALUE_SET", <<"KEY">>, 1, 0, <<>>, <<Rel("VALUE", <<"v1">>)>>) }

\* Python's None where a block is expected
NoBlock == Block("None", "None", <<>>, 0, 0, <<>>, <<>>)

\* blocks_map.get(id): the last block of the list with that Id, None if none
blocks_map_get(blocks, id) ==
    IF \E i \in DOMAIN blocks : blocks[i].Id = id
        THEN blocks[CHOOSE i \in DOMAIN blocks :
                        /\ blocks[i].Id = id
                        /\ \A j \in DOMAIN blocks : blocks[j].Id = id => j <= i]
        ELSE NoBlock

\* text += child['Text'] + ' ' over the ids of one relationship
RECURSIVE ChildWords(_, _)
ChildWords(ids, blocks) ==
    IF ids = <<>> THEN <<>>
    ELSE LET child == blocks_map_get(blocks, Head(ids))
         IN  (IF child # NoBlock /\ child.BlockType = "WORD"
                THEN child.Text \o <<" ">> ELSE <<>>)
             \o ChildWords(Tail(ids), blocks)

RECURSIVE RelationshipWords(_, _)
RelationshipWords(rels, blocks) ==
    IF rels = <<>> THEN <<>>
    ELSE (IF Head(rels).Type = "CHILD" THEN ChildWords(Head(rels).Ids, blocks) ELSE <<>>)
         \o RelationshipWords(Tail(rels), blocks)

get_text_from_block(block, blocks) ==
    IF block = NoBlock THEN <<>>
    ELSE Strip(RelationshipWords(block.Relationships, blocks))

\* the block of the first id of the first VALUE relationship that has ids
RECURSIVE get_value_block_from(_, _)
get_value_block_from(rels, blocks) ==
    IF rels = <<>> THEN NoBlock
    ELSE IF Head(rels).Type = "VALUE" /\ Head(rels).Ids # <<>>
        THEN blocks_map_get(blocks, Head(rels).Ids[1])
        ELSE get_value_block_from(Tail(rels), blocks)

get_value_block(key_block, blocks) == get_value_block_from(key_block.Relationships, blocks)

\* (x['page'], x['y_position']) of a before that of b, as Python orders tuples
SortKeyLess(a, b) ==
    \/ a.page < b.page
    \/ a.page = b.page /\ a.y_position < b.y_position

\* an insertion that puts x before the elements with an equal key
RECURSIVE InsertBeforeEqual(_, _)
InsertBeforeEqual(sorted, x) ==
    IF sorted = <<>> THEN <<x>>
    ELSE IF ~SortKeyLess(sorted[1], x) THEN <<x>> \o sorted
    ELSE <<sorted[1]>> \o InsertBeforeEqual(Tail(sorted), x)

\* x goes behind every element whose key is not greater: list.sort is stable
RECURSIVE Insert(_, _)
Insert(sorted, x) ==
    IF sorted = <<>> THEN <<x>>
    ELSE IF SortKeyLess(x, sorted[1]) THEN <<x>> \o sorted
    ELSE <<sorted[1]>> \o Insert(Tail(sorted), x)

\* list.sort(key=lambda x: (x['page'], x['y_position']))
RECURSIVE Sort(_)
Sort(list) ==
    IF list = <<>> THEN <<>>
    ELSE Insert(Sort(SubSeq(list, 1, Len(list) - 1)), list[Len(list)])

\* the form_pairs list before it is sorted
RECURSIVE CollectFormPairs(_, _)
CollectFormPairs(blocks, k) ==
    IF k > Len(blocks) THEN <<>>
    ELSE LET block == blocks[k]
             key_text == get_text_from_block(block, blocks)
             value_block == get_value_block(block, blocks)
             value_text == IF value_block # NoBlock
                             THEN get_text_from_block(value_block, blocks) ELSE <<>>
         IN  (IF /\ block.BlockType = "KEY_VALUE_SET"
                 /\ \E e \in DOMAIN block.EntityTypes : block.EntityTypes[e] = "KEY"
                 /\ key_text # <<>>
                THEN << [key |-> key_text, value |-> value_text,
                         page |-> block.Page, y_position |-> block.Top] >>
                ELSE <<>>)
             \o CollectFormPairs(blocks, k + 1)

\* the lines list before it is sorted
RECURSIVE CollectLines(_, _)
CollectLines(blocks, k) ==
    IF k > Len(blocks) THEN <<>>
    ELSE (IF blocks[k].BlockType = "LINE"
            THEN << [text |-> blocks[k].Text, page |-> blocks[k].Page,
                     y_position |-> blocks[k].Top] >>
            ELSE <<>>)
         \o CollectLines(blocks, k + 1)

\* f"{pair['key']} {pair['value']}", or the key alone when the value is empty
PairLine(pair) ==
    IF pair.value # <<>> THEN pair.key \o <<" ">> \o pair.value ELSE pair.key

sorted_form_pairs(resp) == Sort(CollectFormPairs(resp.Blocks, 1))

process_textract_response(resp) ==
    LET pairs == sorted_form_pairs(resp)
        forms_text == IF pairs # <<>>
                        THEN JoinLines([k \in DOMAIN pairs |-> PairLine(pairs[k])])
                        ELSE <<>>
        lines == Sort(CollectLines(resp.Blocks, 1))
        lines_text == JoinLines([k \in DOMAIN lines |-> lines[k].text])
    IN  [text |-> IF forms_text # <<>> THEN forms_text ELSE lines_text,
         lines |-> lines,
         lines_text |-> lines_text]

\* the variable blocks get their position in the list as Id
WithIds(blocks) ==
    [k \in DOMAIN blocks |-> [blocks[k] EXCEPT !.Id = "b" \o ToString(k)]]

InitNorm ==
    /\ \E bs \in UNION {[1..n -> LineBlocks \cup KeyBlocks] : n \in 0..MaxBlocks} :
          response = [Blocks |-> WordBlocks \o WithIds(bs)]
    /\ form_pairs = <<>>
    /\ norm_data = NoNormData
    /\ norm_pc = "call"
    /\ IdleRule
    /\ IdleEngine
    /\ IdleSplit
    /\ IdleJson
    /\ IdleFields
    /\ IdleReport
    /\ IdleRun
    /\ IdleRecover
    /\ IdleOrder
    /\ IdleFrame
    /\ IdleStore
    /\ IdleFile

ProcessTextractResponse ==
    /\ norm_pc = "call"
    /\ form_pairs' = sorted_form_pairs(response)
    /\ norm_data' = process_textract_response(response)
    /\ norm_pc' = "returned"
    /\ UNCHANGED <<response, ruleVars, engineVars, splitVars, jsonVars, fieldVars, reportVars, runVars, recoverVars, orderVars, frameVars, storeVars, fileVars>>

NextNorm == ProcessTextractResponse

SpecNorm == InitNorm /\ [][NextNorm]_vars

\* positions in the Blocks list of the LINE blocks, and of the KEY blocks
\* that have a key text
LineIdx == {i \in DOMAIN response.Blocks : response.Blocks[i].BlockType = "LINE"}

PairIdx ==
    {i \in DOMAIN response.Blocks :
        /\ response.Blocks[i].BlockType = "KEY_VALUE_SET"
        /\ \E e \in DOMAIN response.Blocks[i].EntityTypes :
                response.Blocks[i].EntityTypes[e] = "KEY"
        /\ get_text_from_block(response.Blocks[i], response.Blocks) # <<>>}

\* block i comes before block j in reading order, input order breaking ties
ReadsBefore(i, j) ==
    LET a == response.Blocks[i]
        b == response.Blocks[j]
    IN  \/ a.Page < b.Page
        \/ a.Page = b.Page /\ a.Top < b.Top
        \/ a.Page = b.Page /\ a.Top = b.Top /\ i < j

\* the place of block i among the blocks of S
Rank(S, i) == 1 + Cardinality({j \in S : ReadsBefore(j, i)})

NonDecreasing(list) ==
    \A k \in 1..(Len(list) - 1) : ~SortKeyLess(list[k + 1], list[k])

\* C11: lines_text joins exactly the N texts of the N LINE blocks, in
\* non-decreasing (page, top) order with ties in input order, and the same
\* holds for the key/value pairs that make up the forms text.
C11_StableReadingOrder ==
    norm_pc = "returned" =>
        /\ Len(norm_data.lines) = Cardinality(LineIdx)
        /\ NonDecreasing(norm_data.lines)
        /\ \A i \in LineIdx :
              LET b == response.Blocks[i]
              IN  norm_data.lines[Rank(LineIdx, i)] =
                    [text |-> b.Text, page |-> b.Page, y_position |-> b.Top]
        /\ norm_data.lines_text =
              JoinLines([k \in DOMAIN norm_data.lines |-> norm_data.lines[k].text])
        /\ Len(form_pairs) = Cardinality(PairIdx)
        /\ NonDecreasing(form_pairs)
        /\ \A i \in PairIdx :
              LET b == response.Blocks[i]
                  pair == form_pairs[Rank(PairIdx, i)]
              IN  /\ pair.page = b.Page
                  /\ pair.y_position = b.Top
                  /\ pair.key = get_text_from_block(b, response.Blocks)
                  /\ pair.value = get_text_from_block(
                                    get_value_block(b, response.Blocks), response.Blocks)
        /\ PairIdx # {} =>
              norm_data.text =
                JoinLines([k \in DOMAIN form_pairs |-> PairLine(form_pairs[k])])

\* reached: two LINE blocks with different texts tie on (page, top) and a
\* LINE block given before them reads after them
C11_Witness ==
    /\ norm_pc = "returned"
    /\ \E h, i, j \in LineIdx :
        /\ h < i
        /\ i < j
        /\ response.Blocks[i].Page = response.Blocks[j].Page
        /\ response.Blocks[i].Top = response.Blocks[j].Top
        /\ response.Blocks[i].Text # response.Blocks[j].Text
        /\ ReadsBefore(j, h)
        /\ norm_data.lines[1].text = response.Blocks[i].Text
        /\ norm_data.lines[2].text = response.Blocks[j].Text
        /\ norm_data.lines[3].text = response.Blocks[h].Text

(***************************************************************************)
(* SpecReport: generate_csv_from_dynamodb on the records of one run.  The  *)
(* CSV is kept as its rows of cells; csv.writer writes one line per row.   *)
(***************************************************************************)
MaxItems == 2            \* most records of a run
MaxItemRules == 2        \* most rule results of a record

S_PASS == <<"P", "A", "S", "S">>
S_FAIL == <<"F", "A", "I", "L">>
S_SKIP == <<"S", "K", "I", "P">>
S_ERROR == <<"E", "R", "R", "O", "R">>
S_NA == <<"N", "/", "A">>
ServiceIdHeader == <<"S", "e", "r", "v", "i", "c", "e", " ", "I", "D">>
ConsumerNameHeader == <<"C", "o", "n", "s", "u", "m", "e", "r", " ", "N", "a", "m", "e">>

\* code points of the characters of rule names
CodePoint == ("A" :> 65) @@ ("B" :> 66) @@ ("C" :> 67) @@ ("b" :> 98)

\* str < str: the first differing character decides, a proper prefix is less
StrLess(s, t) ==
    \/ \E k \in 1..Min(Len(s), Len(t)) :
          /\ \A j \in 1..(k - 1) : s[j] = t[j]
          /\ CodePoint[s[k]] < CodePoint[t[k]]
    \/ /\ Len(s) < Len(t)
       /\ \A j \in 1..Len(s) : s[j] = t[j]

\* the names from the greatest down
RECURSIVE SortedDescending(_)
SortedDescending(names) ==
    IF names = {} THEN <<>>
    ELSE LET greatest == CHOOSE x \in names : \A y \in names \ {x} : StrLess(y, x)
         IN  <<greatest>> \o SortedDescending(names \ {greatest})

\* sorted(all_rule_names)
RECURSIVE Sorted(_)
Sorted(names) ==
    IF names = {} THEN <<>>
    ELSE LET least == CHOOSE x \in names : \A y \in names \ {x} : StrLess(x, y)
         IN  <<least>> \o Sorted(names \ {least})

LowerToUpper ==
    ("a" :> "A") @@ ("i" :> "I") @@ ("l" :> "L") @@ ("o" :> "O") @@ ("k" :> "K")
    @@ ("x" :> "X")

\* str.upper()
Upper(s) == [k \in DOMAIN s |-> IF s[k] \in DOMAIN LowerToUpper THEN LowerToUpper[s[k]] ELSE s[k]]

\* s.startswith(prefix)
StartsWith(s, prefix) ==
    Len(prefix) <= Len(s) /\ SubSeq(s, 1, Len(prefix)) = prefix

\* rule.get('status', 'N/A') and rule.get('message', '')
StatusOf(rule) == IF "status" \in DOMAIN rule THEN rule.status ELSE S_NA

MessageOf(rule) == IF "message" \in DOMAIN rule THEN rule.message ELSE <<>>

\* a cell that puts the status before every message
StatusCellAlwaysPrefixes(rule) ==
    IF StatusOf(rule) = S_PASS THEN S_PASS
    ELSE IF MessageOf(rule) # <<>> /\ MessageOf(rule) # StatusOf(rule)
        THEN StatusOf(rule) \o <<":", " ">> \o MessageOf(rule)
    ELSE StatusOf(rule)

\* the cell of one rule result
StatusCell(rule) ==
    IF StatusOf(rule) = S_PASS THEN S_PASS
    ELSE IF MessageOf(rule) # <<>> /\ MessageOf(rule) # StatusOf(rule)
        THEN IF StartsWith(Upper(MessageOf(rule)), Upper(StatusOf(rule)))
                THEN MessageOf(rule)
                ELSE StatusOf(rule) \o <<":", " ">> \o MessageOf(rule)
    ELSE StatusOf(rule)

\* all_rule_names
AllRuleNames(its) ==
    UNION { {its[i].rules[r].rule_name : r \in DOMAIN its[i].rules} : i \in DOMAIN its }

\* rule_statuses.get(rule_name, 'N/A'): the last result of that name decides
RuleStatusesGet(item, rule_name) ==
    LET hits == {r \in DOMAIN item.rules : item.rules[r].rule_name = rule_name}
    IN  IF hits = {} THEN S_NA
        ELSE StatusCell(item.rules[CHOOSE r \in hits : \A q \in hits : q <= r])

\* field_values.get(name, 'N/A') if field_values else 'N/A'
FieldValueOrNA(item, name) ==
    IF name \in DOMAIN item.field_values THEN item.field_values[name] ELSE S_NA

CsvRow(item, sorted_rule_names) ==
    << FieldValueOrNA(item, "document_id"), FieldValueOrNA(item, "consumer_name") >>
    \o [k \in DOMAIN sorted_rule_names |-> RuleStatusesGet(item, sorted_rule_names[k])]

generate_csv_from_dynamodb(its) ==
    LET sorted_rule_names == Sorted(AllRuleNames(its))
        header == <<ServiceIdHeader, ConsumerNameHeader>> \o sorted_rule_names
    IN  <<header>> \o [k \in DOMAIN its |-> CsvRow(its[k], sorted_rule_names)]

RuleResult(name, status, message) ==
    [rule_name |-> name, status |-> status, message |-> message]

\* rule results as evaluate_rule writes them, under four rule names, and two
\* stored results that have no status
ReportRuleResults ==
    { RuleResult(<<"A">>, S_PASS, <<"o", "k">>),
      RuleResult(<<"B">>, S_FAIL, <<"x">>),
      RuleResult(<<"C">>, S_FAIL, <<"F", "a", "i", "l", " ", "x">>),
      RuleResult(<<"A", "b">>, S_SKIP, <<>>),
      RuleResult(<<"A">>, S_ERROR, S_ERROR),
      [rule_name |-> <<"B">>, message |-> <<>>],
      [rule_name |-> <<"C">>, message |-> <<"x">>] }

ReportFieldValues == { EmptyDict, [n \in {"document_id"} |-> <<"x">>] }

ReportItems ==
    [field_values : ReportFieldValues,
     rules : UNION {[1..n -> ReportRuleResults] : n \in 0..MaxItemRules}]

InitReport ==
    /\ items \in UNION {[1..n -> ReportItems] : n \in 0..MaxItems}
    /\ csv_rows = <<>>
    /\ report_pc = "call"
    /\ IdleRule
    /\ IdleEngine
    /\ IdleSplit
    /\ IdleJson
    /\ IdleFields
    /\ IdleNorm
    /\ IdleRun
    /\ IdleRecover
    /\ IdleOrder
    /\ IdleFrame
    /\ IdleStore
    /\ IdleFile

GenerateCsv ==
    /\ report_pc = "call"
    /\ csv_rows' = generate_csv_from_dynamodb(items)
    /\ report_pc' = "returned"
    /\ UNCHANGED <<items, ruleVars, engineVars, splitVars, jsonVars, fieldVars, normVars, runVars, recoverVars, orderVars, frameVars, storeVars, fileVars>>

NextReport == GenerateCsv

SpecReport == InitReport /\ [][NextReport]_vars

\* the rule names of one record
NamesOf(item) == {item.rules[r].rule_name : r \in DOMAIN item.rules}

\* the rule columns of the header
RuleColumns == SubSeq(csv_rows[1], 3, Len(csv_rows[1]))

\* C12: the header's rule columns are the distinct rule names of the run's
\* records in ascending order, and each record has one row, in the header's
\* order, with "N/A" under every rule name the record does not have.
C12_SortedUnionColumns ==
    report_pc = "returned" =>
        /\ Len(csv_rows) = 1 + Len(items)
        /\ {RuleColumns[k] : k \in DOMAIN RuleColumns} = AllRuleNames(items)
        /\ \A k \in 1..(Len(RuleColumns) - 1) : StrLess(RuleColumns[k], RuleColumns[k + 1])
        /\ \A i \in DOMAIN items :
              LET row == csv_rows[i + 1]
              IN  /\ Len(row) = Len(csv_rows[1])
                  /\ \A k \in DOMAIN RuleColumns :
                        IF RuleColumns[k] \in NamesOf(items[i])
                            THEN \E r \in DOMAIN items[i].rules :
                                    /\ items[i].rules[r].rule_name = RuleColumns[k]
                                    /\ row[k + 2] = StatusCell(items[i].rules[r])
                            ELSE row[k + 2] = S_NA

\* reached: records with rule sets {A, B} and {A, C} give the columns
\* A, B, C and "N/A" under B for the second record
C12_Witness ==
    /\ report_pc = "returned"
    /\ Len(items) = 2
    /\ NamesOf(items[1]) = {<<"A">>, <<"B">>}
    /\ NamesOf(items[2]) = {<<"A">>, <<"C">>}
    /\ RuleColumns = << <<"A">>, <<"B">>, <<"C">> >>
    /\ csv_rows[3][4] = S_NA
    /\ csv_rows[2][5] = S_NA

(***************************************************************************)
(* SpecRun: one invocation of the validation run's lambda_handler, in the  *)
(* deployed asset and in the multi-org lambda.  The organization is        *)
(* registered and enabled.  S3 and DynamoDB calls succeed or raise; a key  *)
(* of the listing is a validated file ("json"), a file under /raw/ or a    *)
(* batch manifest; doc is what the document_id label yields in the file's  *)
(* text.  The rule results of a file are any statuses evaluate_rule gives. *)
(***************************************************************************)
MaxFiles == 3            \* longest listing
MaxRunRules == 1         \* most stored rules of the organization

RunId == "RUN"
OldRunId == "OLD"

Handlers == {"asset", "multi_org"}

StoredConfigs ==
    {NoStoredConfig} \cup
    [present : {TRUE},
     rules : UNION {[1..n -> [enabled : BOOLEAN]] : n \in 0..MaxRunRules},
     field_mappings : {{}, {"document_id"}}]

RunObjects ==
    [kind : {"json"}, doc : {"d1", "d2", "None"}]
    \cup [kind : {"raw", "manifest"}, doc : {"None"}]

\* load_configuration of the asset: any failure to get the object is raised
\* (ok: the S3 call itself works; a missing object is then NoSuchKey)
load_configuration(stored, ok) ==
    IF stored.present /\ ok
        THEN [raised |-> FALSE, cause |-> "",
              config |-> [rules |-> stored.rules, field_mappings |-> stored.field_mappings]]
        ELSE [raised |-> TRUE, cause |-> IF ok THEN "no_config" ELSE "config",
              config |-> NoConfig]

\* load_org_rules: the enabled RULE# items of the query, no field mappings
load_org_rules(stored, ok) ==
    IF ok
        THEN [raised |-> FALSE, cause |-> "",
              config |-> [rules |-> SelectSeq(stored.rules, LAMBDA r : r.enabled),
                          field_mappings |-> {}]]
        ELSE [raised |-> TRUE, cause |-> "config", config |-> NoConfig]

\* the handler's test on a key of the listing
Selected(h, obj) ==
    IF h = "asset"
        THEN obj.kind \in {"json", "manifest"}
        ELSE obj.kind = "json"

\* fields.get('document_id', 'UNKNOWN') in validate_document
DocumentId(cfg, obj) ==
    IF obj.kind = "json" /\ "document_id" \in cfg.field_mappings
        THEN obj.doc
        ELSE "UNKNOWN"

RunEnabledRules(cfg) == SelectSeq(cfg.rules, LAMBDA r : r.enabled)

RunStatuses == {"PASS", "ERROR"}

\* the rule_results validate_document may collect for the enabled rules
RunRuleResults(cfg) ==
    [1..Len(RunEnabledRules(cfg)) -> [rule_id : {1}, status : RunStatuses, message : {""}]]

\* the record validate_document returns for one file
validate_document(cfg, idx, obj, results, now) ==
    [validation_run_id |-> RunId,
     document_id |-> DocumentId(cfg, obj),
     filename |-> idx,
     validation_timestamp |-> now,
     summary |-> Summarize(results).summary,
     rules |-> results]

\* the item store_results builds: pk, sk and the run key come from the record
StoreItem(results) ==
    [pk |-> results.document_id,
     sk |-> results.validation_timestamp,
     gsi2pk |-> results.validation_run_id,
     filename |-> results.filename,
     summary |-> results.summary,
     rules |-> results.rules]

\* table.put_item: an item with the same primary key is replaced
put_item(tbl, item) ==
    {old \in tbl : ~(old.pk = item.pk /\ old.sk = item.sk)} \cup {item}

\* a store_results that lets the failure of the write out
StoreResultsRaises(tbl, results, write_ok) ==
    IF write_ok
        THEN [raised |-> FALSE, table |-> put_item(tbl, StoreItem(results))]
        ELSE [raised |-> TRUE, table |-> tbl]

\* store_results: the write, with any exception swallowed
store_results(tbl, results, write_ok) ==
    IF write_ok
        THEN [raised |-> FALSE, table |-> put_item(tbl, StoreItem(results))]
        ELSE [raised |-> FALSE, table |-> tbl]

\* the Items of the gsi2 query for the run
RunItems(tbl) == {item \in tbl : item.gsi2pk = RunId}

\* a record an earlier run left in the table
OldItem ==
    [pk |-> "d1", sk |-> 0, gsi2pk |-> OldRunId, filename |-> 0,
     summary |-> Summarize(<<>>).summary, rules |-> <<>>]

InitRun ==
    /\ handler \in Handlers
    /\ stored_config \in StoredConfigs
    /\ contents \in UNION {[1..n -> RunObjects] : n \in 0..MaxFiles}
    /\ run_config = NoConfig
    /\ obj_idx = 0
    /\ table = {OldItem}
    /\ clock = 1
    /\ files_processed = 0
    /\ run_log = NoLog
    /\ csv_report = NoReport
    /\ handler_result = NoResult
    /\ run_pc = "load"
    /\ IdleRule
    /\ IdleEngine
    /\ IdleSplit
    /\ IdleJson
    /\ IdleFields
    /\ IdleNorm
    /\ IdleReport
    /\ IdleRecover
    /\ IdleOrder
    /\ IdleFrame
    /\ IdleStore
    /\ IdleFile

\* except Exception as e: raise e, out of lambda_handler
HandlerRaises(cause, at) ==
    /\ run_pc' = "raised"
    /\ run_log' = [run_log EXCEPT !.cause = cause, !.failed_at = at]

\* load_configuration / load_org_rules at the head of the try block
LoadConfiguration(ok) ==
    /\ run_pc = "load"
    /\ LET out == IF handler = "asset"
                    THEN load_configuration(stored_config, ok)
                    ELSE load_org_rules(stored_config, ok)
       IN  IF out.raised
             THEN /\ HandlerRaises(out.cause, 0)
                  /\ UNCHANGED run_config
             ELSE /\ run_config' = out.config
                  /\ run_pc' = "list"
                  /\ UNCHANGED run_log
    /\ UNCHANGED <<handler, stored_config, contents, obj_idx, table, clock, files_processed, csv_report, handler_result>>
    /\ UNCHANGED <<ruleVars, engineVars, splitVars, jsonVars, fieldVars, normVars, reportVars, recoverVars, orderVars, frameVars, storeVars, fileVars>>

\* the return taken when the listing has no 'Contents'
NoFilesResult(h) ==
    IF h = "asset"
        THEN [statusCode |-> 200, message |-> "No files to validate",
              keys |-> {}, files_processed |-> 0]
        ELSE [statusCode |-> 200, message |-> "No files to validate",
              keys |-> {"organization_id", "validation_run_id", "files_processed"},
              files_processed |-> 0]

\* the return at the end of the try block
CompletedResult(h, n) ==
    IF h = "asset"
        THEN [statusCode |-> 200, message |-> "Validation completed successfully",
              keys |-> {"validation_run_id"}, files_processed |-> 0]
        ELSE [statusCode |-> 200, message |-> "Validation completed successfully",
              keys |-> {"organization_id", "validation_run_id", "files_processed"},
              files_processed |-> n]

\* s3_client.list_objects_v2 and the test for 'Contents'
ListObjects(ok) ==
    /\ run_pc = "list"
    /\ IF ~ok
         THEN /\ HandlerRaises("list", 0)
              /\ UNCHANGED <<obj_idx, handler_result>>
         ELSE IF contents = <<>>
         THEN /\ handler_result' = NoFilesResult(handler)
              /\ run_pc' = "returned"
              /\ UNCHANGED <<obj_idx, run_log>>
         ELSE /\ obj_idx' = 1
              /\ run_pc' = "loop"
              /\ UNCHANGED <<handler_result, run_log>>
    /\ UNCHANGED <<handler, stored_config, contents, run_config, table, clock, files_processed, csv_report>>
    /\ UNCHANGED <<ruleVars, engineVars, splitVars, jsonVars, fieldVars, normVars, reportVars, recoverVars, orderVars, frameVars, storeVars, fileVars>>

\* a key the handler passes over
SkipObject ==
    /\ run_pc = "loop"
    /\ obj_idx <= Len(contents)
    /\ ~Selected(handler, contents[obj_idx])
    /\ obj_idx' = obj_idx + 1
    /\ UNCHANGED <<handler, stored_config, contents, run_config, table, clock, files_processed, run_log, csv_report, handler_result, run_pc>>
    /\ UNCHANGED <<ruleVars, engineVars, splitVars, jsonVars, fieldVars, normVars, reportVars, recoverVars, orderVars, frameVars, storeVars, fileVars>>

\* a process_file that catches the failed read and leaves the key to be
\* read again
ReadFailsAndIsRetried(idx) ==
    /\ run_pc' = "loop"
    /\ run_log' = [run_log EXCEPT !.cause = "read", !.failed_at = idx,
                                 !.reads = Append(@, idx)]

\* get_object or json.loads raises: process_file prints and raises again,
\* and so does lambda_handler
ReadFails(idx) ==
    /\ run_pc' = "raised"
    /\ run_log' = [run_log EXCEPT !.cause = "read", !.failed_at = idx,
                                 !.reads = Append(@, idx)]

\* process_file on the key at obj_idx: get_object and json.loads, then
\* validate_document, store_results and, in the multi-org lambda, the move
\* of the file to the archive
ProcessFile(read_ok, results, write_ok, archive_ok) ==
    /\ run_pc = "loop"
    /\ obj_idx <= Len(contents)
    /\ Selected(handler, contents[obj_idx])
    /\ IF ~read_ok
         THEN /\ ReadFails(obj_idx)
              /\ UNCHANGED <<obj_idx, table, clock, files_processed>>
         ELSE LET rec == validate_document(run_config, obj_idx, contents[obj_idx],
                                           results, clock)
                  stored == store_results(table, rec, write_ok)
                  logged == [run_log EXCEPT
                                !.reads = Append(@, obj_idx),
                                !.stores = Append(@, obj_idx),
                                !.store_failed = IF write_ok THEN @ ELSE @ \cup {obj_idx}]
              IN  /\ clock' = clock + 1
                  /\ table' = stored.table
                  /\ IF stored.raised
                       THEN /\ run_pc' = "raised"
                            /\ run_log' = [logged EXCEPT !.cause = "store",
                                                         !.failed_at = obj_idx]
                            /\ UNCHANGED <<obj_idx, files_processed>>
                       ELSE IF handler = "multi_org" /\ ~archive_ok
                       THEN /\ run_pc' = "raised"
                            /\ run_log' = [logged EXCEPT !.cause = "archive",
                                                         !.failed_at = obj_idx]
                            /\ UNCHANGED <<obj_idx, files_processed>>
                       ELSE /\ run_pc' = "loop"
                            /\ run_log' = [logged EXCEPT !.completed = Append(@, obj_idx)]
                            /\ obj_idx' = obj_idx + 1
                            /\ files_processed' = files_processed + 1
    /\ UNCHANGED <<handler, stored_config, contents, run_config, csv_report, handler_result>>
    /\ UNCHANGED <<ruleVars, engineVars, splitVars, jsonVars, fieldVars, normVars, reportVars, recoverVars, orderVars, frameVars, storeVars, fileVars>>

\* generate_csv_from_dynamodb after the loop: the gsi2 query for the run
GenerateReport(query_ok) ==
    /\ run_pc = "loop"
    /\ obj_idx > Len(contents)
    /\ IF query_ok
         THEN /\ csv_report' = [saved |-> FALSE, records |-> RunItems(table)]
              /\ run_pc' = "save"
              /\ UNCHANGED run_log
         ELSE /\ HandlerRaises("query", 0)
              /\ UNCHANGED csv_report
    /\ UNCHANGED <<handler, stored_config, contents, run_config, obj_idx, table, clock, files_processed, handler_result>>
    /\ UNCHANGED <<ruleVars, engineVars, splitVars, jsonVars, fieldVars, normVars, reportVars, recoverVars, orderVars, frameVars, storeVars, fileVars>>

\* save_csv_to_s3 and the handler's return
SaveReport(save_ok) ==
    /\ run_pc = "save"
    /\ IF save_ok
         THEN /\ csv_report' = [csv_report EXCEPT !.saved = TRUE]
              /\ handler_result' = CompletedResult(handler, files_processed)
              /\ run_pc' = "returned"
              /\ UNCHANGED run_log
         ELSE /\ HandlerRaises("save", 0)
              /\ UNCHANGED <<csv_report, handler_result>>
    /\ UNCHANGED <<handler, stored_config, contents, run_config, obj_idx, table, clock, files_processed>>
    /\ UNCHANGED <<ruleVars, engineVars, splitVars, jsonVars, fieldVars, normVars, reportVars, recoverVars, orderVars, frameVars, storeVars, fileVars>>

NextRun ==
    \/ \E ok \in BOOLEAN : LoadConfiguration(ok)
    \/ \E ok \in BOOLEAN : ListObjects(ok)
    \/ SkipObject
    \/ \E read_ok, write_ok, archive_ok \in BOOLEAN :
         \E results \in RunRuleResults(run_config) :
            ProcessFile(read_ok, results, write_ok, archive_ok)
    \/ \E ok \in BOOLEAN : GenerateReport(ok)
    \/ \E ok \in BOOLEAN : SaveReport(ok)

SpecRun == InitRun /\ [][NextRun]_vars

\* positions of the listing the handler passes to process_file
SelectedIdx == {i \in DOMAIN contents : Selected(handler, contents[i])}

SeqToSet(q) == {q[k] : k \in DOMAIN q}

\* the table holds the record stored for the file at position i
Persisted(i) == \E item \in table : item.gsi2pk = RunId /\ item.filename = i

\* a failed write never ends the run, and a run that returns has passed every
\* selected file to process_file, saved its report and reports success
StoreFailureSwallowed ==
    /\ run_log.cause # "store"
    /\ run_log.store_failed \subseteq
          SeqToSet(run_log.completed) \cup
          (IF run_log.cause = "archive" THEN {run_log.failed_at} ELSE {})
    /\ (run_pc = "returned" /\ contents # <<>>) =>
          /\ SeqToSet(run_log.completed) = SelectedIdx
          /\ csv_report.saved
          /\ handler_result.statusCode = 200

\* the step in which a write fails goes on to the next key of the listing
\* (unless the multi-org lambda's archive move fails in the same call)
StoreFailureStep ==
    run_log'.store_failed # run_log.store_failed =>
        \/ run_pc' = "loop" /\ obj_idx' = obj_idx + 1
        \/ run_pc' = "raised" /\ run_log'.cause = "archive"

\* C13: a failed storage write is swallowed by store_results: process_file
\* completes for that file, the later files are processed, the report is
\* generated and the handler returns success.
C13_StoreFailureSwallowed == []StoreFailureSwallowed /\ [][StoreFailureStep]_vars

\* reached: the write of one file failed, a later file was processed and
\* stored, and the handler returned success with the report saved
C13_Witness ==
    /\ run_pc = "returned"
    /\ handler_result.statusCode = 200
    /\ csv_report.saved
    /\ \E i \in run_log.store_failed :
        \E j \in SeqToSet(run_log.completed) :
            /\ i < j
            /\ ~Persisted(i)
            /\ Persisted(j)

\* C14: a failure to read a file or to list the bucket is raised out of
\* lambda_handler without a retry: nothing after the failing file is
\* processed, no report is written, and the records of earlier files remain.
C14_ReadFailureIsFatal ==
    run_log.cause \in {"read", "list"} =>
        /\ run_pc = "raised"
        /\ ~ENABLED NextRun
        /\ handler_result = NoResult
        /\ csv_report = NoReport
        /\ run_log.cause = "list" => run_log.reads = <<>> /\ run_log.stores = <<>>
        /\ run_log.cause = "read" =>
              /\ Cardinality({k \in DOMAIN run_log.reads :
                                run_log.reads[k] = run_log.failed_at}) = 1
              /\ \A k \in DOMAIN run_log.reads : run_log.reads[k] <= run_log.failed_at
              /\ \A k \in DOMAIN run_log.stores : run_log.stores[k] < run_log.failed_at
              /\ \A i \in SeqToSet(run_log.completed) \ run_log.store_failed : Persisted(i)

\* reached: the second of three files could not be read; the first file's
\* record is in the table and the third file was never read
C14_Witness ==
    /\ run_pc = "raised"
    /\ run_log.cause = "read"
    /\ run_log.failed_at = 2
    /\ SelectedIdx = {1, 2, 3}
    /\ run_log.reads = <<1, 2>>
    /\ Persisted(1)
    /\ ~Persisted(3)
    /\ ~csv_report.saved

\* what can make lambda_handler raise: a failed call of S3 or DynamoDB
IoCauses == {"config", "no_config", "list", "read", "archive", "query", "save"}

\* C15: every normal return of lambda_handler, the one for an empty listing
\* included, carries the run identifier and a count of processed items, and
\* a rule result of status ERROR never makes the handler fail.
C15_ReturnCarriesRunIdAndCount ==
    /\ run_pc = "returned" =>
          /\ "validation_run_id" \in handler_result.keys
          /\ "files_processed" \in handler_result.keys
          /\ handler_result.files_processed = Len(run_log.completed)
    /\ run_pc = "raised" => run_log.cause \in IoCauses

\* C16: each processed file has exactly one record, and no two records of
\* the run share (runId, documentId) or (documentId, timestamp).
C16_UniqueRecordKeys ==
    /\ \A i \in SeqToSet(run_log.completed) :
          Cardinality({item \in RunItems(table) : item.filename = i}) = 1
    /\ \A a, b \in RunItems(table) :
          a # b => /\ a.pk # b.pk
                   /\ ~(a.pk = b.pk /\ a.sk = b.sk)

\* C17: with no stored configuration the loaded rule set and field mapping
\* are empty, the run goes on, every file gets an empty result list, and the
\* absence never makes the run fail.
C17_MissingConfigIsEmpty ==
    ~stored_config.present =>
        /\ run_log.cause # "no_config"
        /\ run_pc \notin {"load", "raised"} => run_config = NoConfig
        /\ \A item \in RunItems(table) : item.rules = <<>>

(***************************************************************************)
(* The per-rule state machine, read off the futures of SpecEngine: "idle"  *)
(* is PENDING, "extract" and "validate" are the protocol steps whose model *)
(* call is outstanding, "done" is terminal with the rule's status.         *)
(***************************************************************************)
\* the steps a rule may take; a finished rule never changes again
RuleMoves(i) ==
    LET before == future[i]
        after == future'[i]
    IN  /\ before.pc = "idle" /\ after.pc # "idle" =>
              /\ rules[i].enabled
              /\ \/ /\ after.pc = "extract"
                    /\ rules[i].type = "llm"
                    /\ rules[i].fields_to_extract # <<>>
                 \/ /\ after.pc = "validate"
                    /\ rules[i].type = "llm"
                    /\ rules[i].fields_to_extract = <<>>
                 \/ /\ after.pc = "done"
                    /\ rules[i].type # "llm"
                    /\ after.status = "SKIP"
        /\ before.pc = "extract" =>
              \/ after.pc = "extract"
              \/ after.pc = "validate" /\ after.extracted_fields # None
              \/ after.pc = "done" /\ after.status = "ERROR"
        /\ before.pc = "validate" => after.pc \in {"validate", "done"}
        /\ before.pc = "done" => after = before

RuleStep == \A i \in DOMAIN rules : RuleMoves(i)

\* no rule is in a state the machine does not have, extraction is only for
\* rules with fields to extract, and validation of such a rule has the
\* extracted fields
RuleStateInv ==
    \A i \in DOMAIN rules :
        /\ future[i].pc \in {"idle", "extract", "validate", "done"}
        /\ future[i].pc = "extract" => rules[i].fields_to_extract # <<>>
        /\ (future[i].pc = "validate" /\ rules[i].fields_to_extract # <<>>) =>
              future[i].extracted_fields # None
        /\ ~rules[i].enabled => future[i].pc = "idle"
        /\ Cardinality({k \in DOMAIN rule_results : rule_results[k].rule_id = i}) <= 1

\* a finished rule has one of the four statuses
RuleTerminalStatus ==
    \A i \in DOMAIN rules : future[i].pc = "done" => future[i].status \in Statuses

\* the machine without the claim about the terminal statuses
RuleMachineShape == []RuleStateInv /\ [][RuleStep]_vars

\* C18: every enabled rule goes PENDING -> extracting (only with fields to
\* extract) -> validating -> one of PASS, FAIL, SKIP, ERROR; validating
\* follows a successful extraction, and a terminal rule is never evaluated
\* again.
C18_RuleStateMachine == []RuleTerminalStatus /\ []RuleStateInv /\ [][RuleStep]_vars

(***************************************************************************)
(* The retry rule of invoke_claude_model, stated on the frame of a direct  *)
(* invocation in JSON mode (return_json_only, as both callers pass it).    *)
(***************************************************************************)
\* the frame after an attempt that got response resp (inv.last remembers
\* the response of the last attempt), as the rule has it
AttemptOutcome(resp) ==
    /\ inv'.attempts = inv.attempts + 1
    /\ inv'.return_json_only = inv.return_json_only
    /\ inv'.raise_on_error = inv.raise_on_error
    /\ inv'.retries0 = inv.retries0
    /\ \/ /\ resp.kind = "network_error"
          /\ inv'.state = "raised"
          /\ inv'.exc = NetworkMessage
          /\ inv'.retries = inv.retries
       \/ /\ resp.kind = "no_json"
          /\ inv.retries > 0
          /\ inv'.state = "running"
          /\ inv'.retries = inv.retries - 1
       \/ /\ resp.kind = "no_json"
          /\ inv.retries = 0
          /\ inv.raise_on_error
          /\ inv'.state = "raised"
          /\ inv'.exc = NoJsonMessage
       \/ /\ resp.kind = "no_json"
          /\ inv.retries = 0
          /\ ~inv.raise_on_error
          /\ inv'.state = "returned"
          /\ inv'.value = None
       \/ /\ resp.kind = "json"
          /\ inv'.state = "returned"
          /\ inv'.value = "json"
          /\ inv'.retries = inv.retries

\* every step of a JSON-mode invocation is an attempt with such an outcome,
\* and an invocation that has ended takes no further step
RetryStep ==
    inv' # inv =>
        /\ inv.state = "running"
        /\ inv.return_json_only => AttemptOutcome(inv'.last)

\* the retries left and the attempts made add up to the retries given, so a
\* further attempt was made exactly once per response without JSON
RetryAccount ==
    (inv.state # "idle" /\ inv.return_json_only) =>
        /\ inv.retries >= 0
        /\ inv.state = "running" => inv.attempts = inv.retries0 - inv.retries
        /\ inv.state \in {"returned", "raised"} =>
              inv.attempts = inv.retries0 - inv.retries + 1
        /\ (inv.state = "returned" /\ inv.value = None) =>
              inv.retries = 0 /\ ~inv.raise_on_error
        /\ (inv.state = "raised" /\ inv.exc = NoJsonMessage) =>
              inv.retries = 0 /\ inv.raise_on_error

\* C19: invoke_claude_model makes a further attempt exactly when the response
\* held no JSON and retries > 0, with retries one less; the first JSON object
\* ends it; no JSON with retries = 0 raises "No JSON found" (or returns none
\* when raise_on_error is off); a network exception propagates at once.
C19_RetryOnlyOnMissingJson == []RetryAccount /\ [][RetryStep]_vars

\* reached: the first response held no JSON, the second did, and the
\* invocation returned it with a retry still left
C19_Witness ==
    /\ inv.state = "returned"
    /\ inv.return_json_only
    /\ inv.value = "json"
    /\ inv.attempts = 2
    /\ inv.retries0 = 2
    /\ inv.retries = 1

(***************************************************************************)
(* The line ranges of the encounters of a split document (SpecSplit).      *)
(* Lines are counted from 1 here; the code's indices are one less.         *)
(***************************************************************************)
ContentLines == SplitLines(AuthoritativeText)

\* the k-th delimiter line of the authoritative transcript
NthDelimiterLine(k) ==
    CHOOSE d \in DelimiterLines : Cardinality({j \in DelimiterLines : j < d}) = k - 1

\* the last line of the k-th encounter
LastLineOf(k) ==
    IF k < Cardinality(DelimiterLines) THEN NthDelimiterLine(k + 1) - 1 ELSE Len(ContentLines)

\* C20: with two or more delimiter lines, encounter i holds exactly the
\* content lines from its delimiter line up to the line before the next
\* delimiter line (the last one up to the end): each begins with and holds
\* exactly one delimiter line, the ranges are disjoint, contiguous and
\* ascending, they cover everything from the first delimiter line on, and
\* encounter_index is i.
C20_EncounterLineRanges ==
    (split_pc = "returned" /\ ~is_irp /\ Cardinality(DelimiterLines) >= 2) =>
        /\ Len(encounters) = Cardinality(DelimiterLines)
        /\ \A k \in DOMAIN encounters :
              LET first == NthDelimiterLine(k)
                  last == LastLineOf(k)
                  meta == encounters[k].metadata
              IN  /\ encounters[k].text = JoinLines(SubSeq(ContentLines, first, last))
                  /\ SplitLines(encounters[k].text) = SubSeq(ContentLines, first, last)
                  /\ Contains(SplitLines(encounters[k].text)[1], ConfiguredDelimiter)
                  /\ Cardinality({j \in first..last : j \in DelimiterLines}) = 1
                  /\ meta.encounter_index = k - 1
                  /\ meta.start_line = first - 1
                  /\ meta.end_line = last
                  /\ meta.line_count = last - first + 1
                  /\ meta.start_line < meta.end_line
                  /\ k < Len(encounters) =>
                        meta.end_line = encounters[k + 1].metadata.start_line
        /\ encounters[1].metadata.start_line = FirstDelimiterLine - 1
        /\ encounters[Len(encounters)].metadata.end_line = Len(ContentLines)

\* reached: a split into two encounters of which the first holds a line
\* after its delimiter line
C20_Witness ==
    /\ split_pc = "returned"
    /\ ~is_irp
    /\ Cardinality(DelimiterLines) = 2
    /\ Len(encounters) = 2
    /\ encounters[1].metadata.line_count = 2
    /\ encounters[2].metadata.encounter_index = 1

(***************************************************************************)
(* The lines text and the split of a document that has a forms text        *)
(* (SpecSplit).                                                            *)
(***************************************************************************)
\* the document with another lines text
WithLinesText(other) == [extracted_data EXCEPT !.lines_text = other]

\* what the split returns for the document with another lines text
SplitWithLinesText(other) ==
    split_into_encounters(WithLinesText(other), is_irp, chart_config)

\* the delimiter lines of the lines text
LineTextDelimiterCount ==
    Len(DelimiterIndices(SplitLines(extracted_data.lines_text), ConfiguredDelimiter))

\* an encounter's metadata without the diagnostic count of the lines text
SplittingMetadata(enc) ==
    [k \in DOMAIN enc.metadata \ {"total_delimiters_in_line_blocks"} |-> enc.metadata[k]]

MaxRecoverLen == 7       \* longest response text (tokens) of SpecRecover

FenceOpen == "F"
FenceClose == "E"
MemberK == "k"
Blank == " "

RecoverAlphabet == {FenceOpen, FenceClose, LBrace, RBrace, MemberK, Blank}

\* json.loads(json_str) on the token alphabet: an object with no member or
\* with the member k, blanks allowed around the tokens
json_loads(json_str) ==
    LET body == Strip(json_str)
        inner == IF Len(body) >= 2 THEN Strip(SubSeq(body, 2, Len(body) - 1)) ELSE <<>>
    IN  IF /\ Len(body) >= 2
           /\ body[1] = LBrace
           /\ body[Len(body)] = RBrace
           /\ inner \in {<<>>, <<MemberK>>}
            THEN [parsed |-> TRUE, keys |-> {inner[i] : i \in DOMAIN inner}]
            ELSE NoObject

\* the for loop of _extract_complete_json from position i on; <<>> is None
RECURSIVE ScanFrom(_, _, _)
ScanFrom(text, st, i) ==
    IF i > Len(text) THEN <<>>
    ELSE LET next == ScanChar(st, text[i])
         IN  IF next.found THEN SubSeq(text, st.start, i)
             ELSE ScanFrom(text, next, i + 1)

extract_complete_json(text) ==
    LET start == Find(text, <<LBrace>>)
    IN  IF start = 0 THEN <<>>
        ELSE ScanFrom(text, [NoScan EXCEPT !.start = start, !.i = start], start)

\* \s* from position p: the first position that holds no whitespace
RECURSIVE SkipWhitespace(_, _)
SkipWhitespace(text, p) ==
    IF p <= Len(text) /\ text[p] \in Whitespace THEN SkipWhitespace(text, p + 1) ELSE p

\* "```" matches at position p
FenceAt(text, p) == p <= Len(text) /\ text[p] \in {FenceOpen, FenceClose}

\* [\s\S]*?\}\s*```: the first '}' from e on that a fence follows, 0 if none
RECURSIVE LazyGroupEnd(_, _)
LazyGroupEnd(text, e) ==
    IF e > Len(text) THEN 0
    ELSE IF text[e] = RBrace /\ FenceAt(text, SkipWhitespace(text, e + 1)) THEN e
    ELSE LazyGroupEnd(text, e + 1)

NoMatch == <<0, 0>>

\* the pattern tried at position s: the bounds of group 1, or NoMatch
MatchAt(text, s) ==
    IF text[s] # FenceOpen THEN NoMatch
    ELSE LET b == SkipWhitespace(text, s + 1)
         IN  IF b > Len(text) \/ text[b] # LBrace THEN NoMatch
             ELSE LET e == LazyGroupEnd(text, b + 1)
                  IN  IF e = 0 THEN NoMatch ELSE <<b, e>>

\* re.search(r"```json\s*(\{[\s\S]*?\})\s*```", text) from position s on
RECURSIVE re_search(_, _)
re_search(text, s) ==
    IF s > Len(text) THEN NoMatch
    ELSE IF MatchAt(text, s) # NoMatch THEN MatchAt(text, s)
    ELSE re_search(text, s + 1)

\* an extraction that goes on to the brace scan when the fenced block does not parse
ExtractFallsBackToScan(body) ==
    IF body = <<>> THEN NoObject
    ELSE LET all_text == body[1]
             match == re_search(all_text, 1)
             fenced == IF match = NoMatch THEN NoObject
                       ELSE json_loads(SubSeq(all_text, match[1], match[2]))
         IN  IF fenced.parsed THEN fenced
             ELSE json_loads(extract_complete_json(all_text))

extract_json_from_claude_response(body) ==
    IF body = <<>> THEN NoObject
    ELSE LET all_text == body[1]
             match == re_search(all_text, 1)
         IN  IF match = NoMatch
                THEN LET json_str == extract_complete_json(all_text)
                     IN  IF json_str = <<>> THEN NoObject ELSE json_loads(json_str)
                ELSE json_loads(SubSeq(all_text, match[1], match[2]))

InitRecover ==
    /\ response_body \in {<<>>} \cup {<<t>> : t \in Strings(RecoverAlphabet, MaxRecoverLen)}
    /\ extracted_json = NoObject
    /\ recover_pc = "call"
    /\ IdleRule
    /\ IdleEngine
    /\ IdleSplit
    /\ IdleJson
    /\ IdleFields
    /\ IdleNorm
    /\ IdleReport
    /\ IdleRun
    /\ IdleOrder
    /\ IdleFrame
    /\ IdleStore
    /\ IdleFile

ExtractJson ==
    /\ recover_pc = "call"
    /\ extracted_json' = extract_json_from_claude_response(response_body)
    /\ recover_pc' = "returned"
    /\ UNCHANGED <<response_body, ruleVars, engineVars, splitVars, jsonVars, fieldVars, normVars, reportVars, runVars, orderVars, frameVars, storeVars, fileVars>>

NextRecover == ExtractJson

SpecRecover == InitRecover /\ [][NextRecover]_vars

\* the response text
AllText == response_body[1]

\* a fenced block: the opening fence at s, then whitespace, group 1 from a
\* '{' at b to a '}' at e, then whitespace and a fence at c
GroupStart(s, e, b) ==
    /\ AllText[b] = LBrace
    /\ \A q \in (s + 1)..(b - 1) : AllText[q] \in Whitespace

Fenced(s, e) ==
    /\ AllText[s] = FenceOpen
    /\ AllText[e] = RBrace
    /\ \E b \in (s + 1)..(e - 1) : GroupStart(s, e, b)
    /\ \E c \in (e + 1)..Len(AllText) :
          /\ AllText[c] \in {FenceOpen, FenceClose}
          /\ \A q \in (e + 1)..(c - 1) : AllText[q] \in Whitespace

FencedBlocks ==
    {blk \in (DOMAIN AllText) \X (DOMAIN AllText) : Fenced(blk[1], blk[2])}

\* the leftmost fenced block, and of those the shortest
FirstFenced ==
    CHOOSE blk \in FencedBlocks :
        \A other \in FencedBlocks :
            \/ blk[1] < other[1]
            \/ blk[1] = other[1] /\ blk[2] <= other[2]

FencedContent ==
    LET s == FirstFenced[1]
        e == FirstFenced[2]
    IN  SubSeq(AllText, CHOOSE b \in (s + 1)..(e - 1) : GroupStart(s, e, b), e)

\* the first '{' of the text and the '}' that closes it, by counting
FirstBrace == Find(AllText, <<LBrace>>)

ClosingBraces == {p \in FirstBrace..Len(AllText) : Closes(AllText, FirstBrace, p)}

UnfencedObject ==
    IF FirstBrace = 0 \/ ClosingBraces = {} THEN NoObject
    ELSE json_loads(SubSeq(AllText, FirstBrace,
                           CHOOSE p \in ClosingBraces : \A q \in ClosingBraces : p <= q))

\* C22: when the text holds a fenced block matching the pattern, the result
\* is what the content of the first such block parses to, none when it is
\* not valid JSON, whatever the brace scan would find; only without a fenced
\* block is the result what the brace scan finds.
C22_FencedBlockFirst ==
    (recover_pc = "returned" /\ response_body # <<>>) =>
        IF FencedBlocks # {}
            THEN extracted_json = json_loads(FencedContent)
            ELSE extracted_json = UnfencedObject

\* reached: a fenced block that is not valid JSON gives none although a
\* valid object stands before the fence, which the brace scan would return
C22_Witness ==
    /\ recover_pc = "returned"
    /\ response_body # <<>>
    /\ FencedBlocks # {}
    /\ FirstBrace < FirstFenced[1]
    /\ ~json_loads(FencedContent).parsed
    /\ UnfencedObject.parsed
    /\ extracted_json = NoObject

(***************************************************************************)
(* The line that decides a field's value (SpecFields).                     *)
(***************************************************************************)
FieldLines == SplitLines(fx_text)

\* the lines that contain the label of field f
LabelLines(f) == {k \in DOMAIN FieldLines : Contains(FieldLines[k], field_mappings[f])}

FirstLabelLine(f) == CHOOSE k \in LabelLines(f) : \A j \in LabelLines(f) : k <= j

\* the trimmed text after the first occurrence of the label in the first
\* line that contains it; null when no line contains it or nothing is left
ValueByFirstLine(f) ==
    IF LabelLines(f) = {} THEN NoValue
    ELSE LET line == FieldLines[FirstLabelLine(f)]
             label == field_mappings[f]
             at == CHOOSE i \in 1..(Len(line) - Len(label) + 1) :
                      /\ SubSeq(line, i, i + Len(label) - 1) = label
                      /\ \A j \in 1..(i - 1) : SubSeq(line, j, j + Len(label) - 1) # label
             rest == Strip(SubSeq(line, at + Len(label), Len(line)))
         IN  IF rest = <<>> THEN NoValue ELSE rest

\* the mapping that holds the entry of field f alone
OnlyEntry(f) == [g \in {f} |-> field_mappings[f]]

\* every call that returns gives each field the value of its first label
\* line, the same value its entry alone gives
FirstLineDecidesOnReturn ==
    (fx_pc = "returned" /\ fx_text # <<>>) =>
        \A f \in DOMAIN field_mappings :
            /\ fields[f] = ValueByFirstLine(f)
            /\ fields[f] = extract_fields_from_text(fx_text, OnlyEntry(f))[f]

\* C23: for a non-empty text every field of the mapping gets the value its
\* first label line decides (the trimmed text after the first occurrence of
\* the label, null when nothing is left, later label lines not consulted),
\* and a field whose entry alone yields a value gets that same value
\* whatever the other entries of the mapping are.
C23_FirstLabelLineDecides ==
    (fx_pc \in {"returned", "raised"} /\ fx_text # <<>>) =>
        \A f \in DOMAIN field_mappings :
            ~Raises(fx_text, OnlyEntry(f)) =>
                /\ fx_pc = "returned"
                /\ fields[f] = ValueByFirstLine(f)
                /\ fields[f] = extract_fields_from_text(fx_text, OnlyEntry(f))[f]

\* reached by a call that returns: the first label line has nothing after
\* the label, a later line has the label and a value, and the field is null
FirstLineDecidesReached ==
    /\ fx_pc = "returned"
    /\ \E f \in DOMAIN field_mappings :
          /\ Cardinality(LabelLines(f)) >= 2
          /\ fields[f] = NoValue
          /\ \E k \in LabelLines(f) :
                Strip(AfterFirst(FieldLines[k], field_mappings[f])) # <<>>

(***************************************************************************)
(* The cells of the report (SpecReport).                                   *)
(***************************************************************************)
\* the result of the record that decides the cell of a rule name: results are
\* keyed by name, so of several results of one name the last one stays
DecidingResult(item, name) ==
    item.rules[CHOOSE r \in DOMAIN item.rules :
                  /\ item.rules[r].rule_name = name
                  /\ \A q \in DOMAIN item.rules :
                        item.rules[q].rule_name = name => q <= r]

HasStatus(result) == "status" \in DOMAIN result

\* message starts with the status token, compared without regard to case
StartsWithStatusToken(message, status) ==
    /\ Len(message) >= Len(status)
    /\ \A k \in DOMAIN status : Upper(<<message[k]>>) = Upper(<<status[k]>>)

\* the cell the claim gives a result with a status
ExpectedCell(result) ==
    LET status == result.status
        message == result.message
    IN  CASE status = S_PASS -> S_PASS
          [] status # S_PASS /\ (message = <<>> \/ message = status) -> status
          [] /\ status # S_PASS
             /\ message # <<>> /\ message # status
             /\ StartsWithStatusToken(message, status) -> message
          [] OTHER -> status \o <<":", " ">> \o message

\* C24: in every row, the cell of a rule the record has with a status is
\* "PASS" for PASS, else the message verbatim when it is non-empty, differs
\* from the status and starts with the status token in any case, else
\* "{status}: {message}" when it is non-empty and differs from the status,
\* else the bare status; a cell is "N/A" only when the record has no result
\* of that name or the result has no status.
C24_StatusCellFormat ==
    report_pc = "returned" =>
        \A i \in DOMAIN items :
            \A k \in DOMAIN RuleColumns :
                LET cell == csv_rows[i + 1][k + 2]
                    name == RuleColumns[k]
                IN  /\ (name \in NamesOf(items[i]) /\ HasStatus(DecidingResult(items[i], name)))
                        => cell = ExpectedCell(DecidingResult(items[i], name))
                    /\ name \notin NamesOf(items[i]) => cell = S_NA
                    /\ cell = S_NA =>
                        \/ name \notin NamesOf(items[i])
                        \/ ~HasStatus(DecidingResult(items[i], name))

\* reached: one record whose row shows a message that starts with the
\* status in another case, and a prefixed message
C24_Witness ==
    /\ report_pc = "returned"
    /\ Len(items) = 1
    /\ Len(csv_rows) = 2
    /\ RuleColumns = << <<"B">>, <<"C">> >>
    /\ csv_rows[2][3] = <<"F", "A", "I", "L", ":", " ", "x">>
    /\ csv_rows[2][4] = <<"F", "a", "i", "l", " ", "x">>

(***************************************************************************)
(* SpecOrder: two executions of validate_document, store_results and       *)
(* generate_csv_from_dynamodb on the same document, the same enabled rules *)
(* and the same result per rule.  The executions differ only in the order  *)
(* in which as_completed yields the futures.                               *)
(***************************************************************************)
MaxOrderRules == 2       \* longest list of enabled rules of SpecOrder

OrderRuleNames == { <<"A">>, <<"B">> }

\* status, f"{status} - {reasoning}" of _validate_rule
OrderVerdict(name, status) == RuleResult(name, status, status \o <<" ", "-", " ", "x">>)

OrderResults == { OrderVerdict(n, s) : n \in OrderRuleNames, s \in {S_PASS, S_FAIL} }

\* rule_results of execution x: the results in the order of completion
rule_results_of(x) == [k \in DOMAIN completion[x] |-> evaluated[completion[x][k]]]

Yielded(x) == {completion[x][k] : k \in DOMAIN completion[x]}

InitOrder ==
    /\ evaluated \in UNION {[1..n -> OrderResults] : n \in 1..MaxOrderRules}
    /\ completion = [x \in Executions |-> <<>>]
    /\ stored_record = [x \in Executions |-> <<>>]
    /\ run_csv = [x \in Executions |-> <<>>]
    /\ order_pc = [x \in Executions |-> "collecting"]
    /\ IdleRule
    /\ IdleEngine
    /\ IdleSplit
    /\ IdleJson
    /\ IdleFields
    /\ IdleNorm
    /\ IdleReport
    /\ IdleRun
    /\ IdleRecover
    /\ IdleFrame
    /\ IdleStore
    /\ IdleFile

\* as_completed yields the future of rule i and its result is appended
AsCompleted(x, i) ==
    /\ order_pc[x] = "collecting"
    /\ i \notin Yielded(x)
    /\ completion' = [completion EXCEPT ![x] = Append(@, i)]
    /\ UNCHANGED <<evaluated, stored_record, run_csv, order_pc, ruleVars, engineVars, splitVars, jsonVars, fieldVars, normVars, reportVars, runVars, recoverVars, frameVars, storeVars, fileVars>>

\* validate_document returns the record with 'rules': rule_results and
\* store_results puts it in the table
ReturnAndStore(x) ==
    /\ order_pc[x] = "collecting"
    /\ Yielded(x) = DOMAIN evaluated
    /\ stored_record' = [stored_record EXCEPT ![x] =
            <<[field_values |-> [n \in {"document_id"} |-> <<"x">>],
               rules |-> rule_results_of(x)]>>]
    /\ order_pc' = [order_pc EXCEPT ![x] = "stored"]
    /\ UNCHANGED <<evaluated, completion, run_csv, ruleVars, engineVars, splitVars, jsonVars, fieldVars, normVars, reportVars, runVars, recoverVars, frameVars, storeVars, fileVars>>

\* generate_csv_from_dynamodb on the items of the run
ReportOfRun(x) ==
    /\ order_pc[x] = "stored"
    /\ run_csv' = [run_csv EXCEPT ![x] = generate_csv_from_dynamodb(stored_record[x])]
    /\ order_pc' = [order_pc EXCEPT ![x] = "reported"]
    /\ UNCHANGED <<evaluated, completion, stored_record, ruleVars, engineVars, splitVars, jsonVars, fieldVars, normVars, reportVars, runVars, recoverVars, frameVars, storeVars, fileVars>>

NextOrder ==
    \/ \E x \in Executions, i \in DOMAIN evaluated : AsCompleted(x, i)
    \/ \E x \in Executions : ReturnAndStore(x)
    \/ \E x \in Executions : ReportOfRun(x)

SpecOrder == InitOrder /\ [][NextOrder]_vars

BothReported == \A x \in Executions : order_pc[x] = "reported"

\* the rule names of a persisted list never descend
InNameOrder(results) ==
    \A k \in 1..(Len(results) - 1) : ~StrLess(results[k + 1].rule_name, results[k].rule_name)

\* C25: two executions on the same document, rules and per-rule results
\* persist the same list of rule results, in the order of the rule names,
\* and produce the same report, header and cells, whatever the completion
\* orders were.
C25_CompletionOrderInvisible ==
    BothReported =>
        /\ stored_record[1][1].rules = stored_record[2][1].rules
        /\ InNameOrder(stored_record[1][1].rules)
        /\ run_csv[1] = run_csv[2]

\* the header of the report does not depend on the completion order
HeaderIsOrderFree == BothReported => run_csv[1][1] = run_csv[2][1]

\* reached: two rules of one name with different results, completed in
\* opposite orders, give reports with different cells
ReportDependsOnCompletion ==
    /\ BothReported
    /\ Len(evaluated) = 2
    /\ evaluated[1].rule_name = evaluated[2].rule_name
    /\ completion[1] = <<1, 2>>
    /\ completion[2] = <<2, 1>>
    /\ run_csv[1][2] # run_csv[2][2]

(***************************************************************************)
(* SpecFrame: the fields dict and the document data that validate_document *)
(* shares among the rule evaluations, in the deployed engine (whose pool   *)
(* runs the evaluations in any order; the multi-org engine is the same in  *)
(* this respect) and in the legacy engine src/lambda/rules_engine.py       *)
(* (whose loop runs them one after the other).                             *)
(***************************************************************************)
MaxFrameRules == 3       \* most enabled rules of SpecFrame

Engines == {"asset", "legacy"}

FrameTexts == { <<>>, <<"x">>, <<"K", "v">> }

FrameMappings == [n \in {"document_id"} |-> <<"K">>]

\* what the model answers: a reasoning, or the call raises
Reasonings == { <<"r", "1">>, <<"r", "2">> }

CallRaises == <<"raise">>

\* chart_text: data['text'], or json.dumps(fields) when there is no text.
\* json.dumps is one-to-one on these dicts, so the dict stands for its dump.
ChartText(text, fs) ==
    IF text # <<>>
        THEN [from_text |-> TRUE, text |-> text, fields |-> EmptyDict, given |-> TRUE]
        ELSE [from_text |-> FALSE, text |-> <<>>, fields |-> fs, given |-> TRUE]

\* fields['llm_reasoning'] = reasoning
SetItem(fs, key, value) ==
    [n \in DOMAIN fs \cup {key} |-> IF n = key THEN value ELSE fs[n]]

\* the fields dict after evaluate_llm_rule: the legacy engine stores the
\* reasoning of a parsed answer in it
evaluate_llm_rule_fields(eng, fs, outcome) ==
    IF eng = "legacy" /\ outcome # CallRaises
        THEN SetItem(fs, "llm_reasoning", outcome)
        ELSE fs

Evaluated == {i \in DOMAIN model_input : model_input[i].given}

InitFrame ==
    /\ engine \in Engines
    /\ doc_text \in FrameTexts
    /\ shared_fields = EmptyDict
    /\ model_input \in {[i \in 1..n |-> NoInput] : n \in 1..MaxFrameRules}
    /\ frame_record = EmptyDict
    /\ frame_pc = "start"
    /\ IdleRule
    /\ IdleEngine
    /\ IdleSplit
    /\ IdleJson
    /\ IdleFields
    /\ IdleNorm
    /\ IdleReport
    /\ IdleRun
    /\ IdleRecover
    /\ IdleOrder
    /\ IdleStore
    /\ IdleFile

\* fields = extract_fields_from_text(text, field_mappings)
ExtractSharedFields ==
    /\ frame_pc = "start"
    /\ shared_fields' = extract_fields_from_text(doc_text, FrameMappings)
    /\ frame_pc' = "rules"
    /\ UNCHANGED <<engine, doc_text, model_input, frame_record, ruleVars, engineVars, splitVars, jsonVars, fieldVars, normVars, reportVars, runVars, recoverVars, orderVars, storeVars, fileVars>>

\* evaluate_rule(rule_config, fields, data) of rule i: the legacy loop takes
\* the rules in order, the pool in any order
EvaluateWithSharedFields(i, outcome) ==
    /\ frame_pc = "rules"
    /\ i \notin Evaluated
    /\ engine = "legacy" => \A j \in 1..(i - 1) : j \in Evaluated
    /\ model_input' = [model_input EXCEPT ![i] = ChartText(doc_text, shared_fields)]
    /\ shared_fields' = evaluate_llm_rule_fields(engine, shared_fields, outcome)
    /\ UNCHANGED <<engine, doc_text, frame_record, frame_pc, ruleVars, engineVars, splitVars, jsonVars, fieldVars, normVars, reportVars, runVars, recoverVars, orderVars, storeVars, fileVars>>

\* return {..., 'field_values': fields}
ReturnFieldValues ==
    /\ frame_pc = "rules"
    /\ Evaluated = DOMAIN model_input
    /\ frame_record' = shared_fields
    /\ frame_pc' = "returned"
    /\ UNCHANGED <<engine, doc_text, shared_fields, model_input, ruleVars, engineVars, splitVars, jsonVars, fieldVars, normVars, reportVars, runVars, recoverVars, orderVars, storeVars, fileVars>>

NextFrame ==
    \/ ExtractSharedFields
    \/ \E i \in DOMAIN model_input, outcome \in Reasonings \cup {CallRaises} :
            EvaluateWithSharedFields(i, outcome)
    \/ ReturnFieldValues

SpecFrame == InitFrame /\ [][NextFrame]_vars

\* the output of extract_fields_from_text for the document
ExtractedFields == extract_fields_from_text(doc_text, FrameMappings)

\* every model call got the chart text, or the dump of the extracted fields
\* when the text is empty, and the record holds the extracted fields
FrameKept ==
    /\ \A i \in Evaluated : model_input[i] = ChartText(doc_text, ExtractedFields)
    /\ frame_pc = "returned" => frame_record = ExtractedFields

\* C26: in every engine, whatever sibling rules have run, every rule's model
\* call is given the document's chart text, or the dump of the output of
\* extract_fields_from_text when the text is empty, and field_values of the
\* returned record is that output.
C26_SharedFieldsUnmodified == FrameKept

\* the deployed engine keeps the frame
AssetFrameKept == engine = "asset" => FrameKept

\* reached in the deployed engine: two rules answered for a document without
\* text, and the record returned
AssetFrameReached ==
    /\ engine = "asset"
    /\ frame_pc = "returned"
    /\ doc_text = <<>>
    /\ Cardinality(Evaluated) = 2

(***************************************************************************)
(* SpecStore: process_and_store_results of the Textract result handler on  *)
(* a chart that is not an IRP document.  Every S3 call either works or     *)
(* raises.  An object key is its kind and the sanitized encounter id: the  *)
(* folder, the file name and the timestamp (taken once, line 199) are the  *)
(* same in every key of one document.                                      *)
(***************************************************************************)
MaxStoreLen == 5         \* longest document text (characters) of SpecStore

StoreAlphabet == {"D", "a", "/", "-", " ", NL}

\* chart_config.get('encounter_id_field', 'Consumer Service ID:')
EncounterIdField(config) == DefaultDelimiter

StoreConfigs ==
    { NoChartConfig, [has_delimiter |-> TRUE, encounter_delimiter |-> <<"a">>] }

\* the first line of the encounter text that contains the id field, 0 if none
IdLine(text, field) ==
    LET lines == SplitLines(text)
        hits == {k \in DOMAIN lines : Contains(lines[k], field)}
    IN  IF hits = {} THEN 0 ELSE CHOOSE k \in hits : \A j \in hits : k <= j

\* parts[1].strip().split(): the words after the id field
RECURSIVE FirstWord(_)
FirstWord(s) ==
    IF s = <<>> \/ Head(s) \in Whitespace THEN <<>>
    ELSE <<Head(s)>> \o FirstWord(Tail(s))

WordsAfter(text, field) ==
    Strip(AfterFirst(SplitLines(text)[IdLine(text, field)], field))

\* [0] of an empty list raises IndexError
EncounterIdRaises(text, field) ==
    IdLine(text, field) # 0 /\ WordsAfter(text, field) = <<>>

\* f'encounter-{idx+1}', idx counted from 0
FallbackId(idx) == <<"encounter-", ToString(idx + 1)>>

encounter_id_of(text, field, idx) ==
    IF IdLine(text, field) = 0 THEN FallbackId(idx)
    ELSE FirstWord(WordsAfter(text, field))

\* encounter_id.replace('/', '-').replace(' ', '-')
safe_encounter_id(id) == [k \in DOMAIN id |-> IF id[k] \in {"/", " "} THEN "-" ELSE id[k]]

output_key(text, field, idx) ==
    [kind |-> "encounter", id |-> safe_encounter_id(encounter_id_of(text, field, idx))]

SingleKey == [kind |-> "single", id |-> <<>>]

\* s3_client.put_object: an object under an existing key is replaced
put_object(s3, key, body) ==
    [s3 EXCEPT !.objects = {o \in @ : o.key # key} \cup {[key |-> key, body |-> body]},
               !.puts = Append(@, [key |-> key, body |-> body])]

InitStore ==
    /\ normalized \in [text : Strings(StoreAlphabet, MaxStoreLen), lines_text : {<<>>}]
    /\ store_config \in StoreConfigs
    /\ store_encounters = <<>>
    /\ enc_idx = 0
    /\ encounter_files = <<>>
    /\ store_s3 = EmptyBucket
    /\ store_cause = "none"
    /\ store_pc = "start"
    /\ IdleRule
    /\ IdleEngine
    /\ IdleSplit
    /\ IdleJson
    /\ IdleFields
    /\ IdleNorm
    /\ IdleReport
    /\ IdleRun
    /\ IdleRecover
    /\ IdleOrder
    /\ IdleFrame
    /\ IdleFile

\* except Exception as e: raise e
StoreRaises(cause) ==
    /\ store_pc' = "raised"
    /\ store_cause' = cause

\* the raw response is saved, the document is normalized and split
SaveRawAndSplit(put_ok) ==
    /\ store_pc = "start"
    /\ IF put_ok
          THEN /\ store_encounters' = split_into_encounters(normalized, FALSE, store_config)
               /\ store_pc' = "encounters"
               /\ UNCHANGED store_cause
          ELSE /\ StoreRaises("s3")
               /\ UNCHANGED store_encounters
    /\ UNCHANGED <<normalized, store_config, enc_idx, encounter_files, store_s3, ruleVars, engineVars, splitVars, jsonVars, fieldVars, normVars, reportVars, runVars, recoverVars, orderVars, frameVars, fileVars>>

\* one iteration of the loop over the encounters of a split document
SaveEncounter(put_ok) ==
    /\ store_pc = "encounters"
    /\ Len(store_encounters) > 1
    /\ enc_idx < Len(store_encounters)
    /\ LET encounter_text == store_encounters[enc_idx + 1].text
           field == EncounterIdField(store_config)
           key == output_key(encounter_text, field, enc_idx)
       IN  IF EncounterIdRaises(encounter_text, field)
              THEN /\ StoreRaises("IndexError")
                   /\ UNCHANGED <<enc_idx, encounter_files, store_s3>>
           ELSE IF ~put_ok
              THEN /\ StoreRaises("s3")
                   /\ UNCHANGED <<enc_idx, encounter_files, store_s3>>
           ELSE /\ store_s3' = put_object(store_s3, key, enc_idx + 1)
                /\ encounter_files' = Append(encounter_files, key)
                /\ enc_idx' = enc_idx + 1
                /\ UNCHANGED <<store_pc, store_cause>>
    /\ UNCHANGED <<normalized, store_config, store_encounters, ruleVars, engineVars, splitVars, jsonVars, fieldVars, normVars, reportVars, runVars, recoverVars, orderVars, frameVars, fileVars>>

\* a single encounter is saved under the key without encounter id
SaveSingle(put_ok) ==
    /\ store_pc = "encounters"
    /\ Len(store_encounters) <= 1
    /\ encounter_files = <<>>
    /\ IF put_ok
          THEN /\ store_s3' = put_object(store_s3, SingleKey, 1)
               /\ encounter_files' = <<SingleKey>>
               /\ UNCHANGED <<store_pc, store_cause>>
          ELSE /\ StoreRaises("s3")
               /\ UNCHANGED <<encounter_files, store_s3>>
    /\ UNCHANGED <<normalized, store_config, store_encounters, enc_idx, ruleVars, engineVars, splitVars, jsonVars, fieldVars, normVars, reportVars, runVars, recoverVars, orderVars, frameVars, fileVars>>

\* the manifest is due as soon as one file has been saved
ManifestDueAfterFirstFile == store_pc = "encounters" /\ encounter_files # <<>>

\* the saving of the encounters has ended
ManifestDue ==
    /\ store_pc = "encounters"
    /\ IF Len(store_encounters) > 1
          THEN enc_idx = Len(store_encounters)
          ELSE encounter_files # <<>>

\* the batch manifest is put
WriteManifest(put_ok) ==
    /\ ManifestDue
    /\ IF put_ok
          THEN /\ store_s3' = [store_s3 EXCEPT !.manifest =
                        [written |-> TRUE,
                         encounter_count |-> Len(store_encounters),
                         encounter_files |-> encounter_files]]
               /\ store_pc' = "archive"
               /\ UNCHANGED store_cause
          ELSE /\ StoreRaises("s3")
               /\ UNCHANGED store_s3
    /\ UNCHANGED <<normalized, store_config, store_encounters, enc_idx, encounter_files, ruleVars, engineVars, splitVars, jsonVars, fieldVars, normVars, reportVars, runVars, recoverVars, orderVars, frameVars, fileVars>>

\* s3_client.copy_object of the source PDF to the archive folder
CopyToArchive(copy_ok) ==
    /\ store_pc = "archive"
    /\ IF copy_ok
          THEN /\ store_s3' = [store_s3 EXCEPT !.archived = TRUE]
               /\ store_pc' = "delete"
               /\ UNCHANGED store_cause
          ELSE /\ StoreRaises("s3")
               /\ UNCHANGED store_s3
    /\ UNCHANGED <<normalized, store_config, store_encounters, enc_idx, encounter_files, ruleVars, engineVars, splitVars, jsonVars, fieldVars, normVars, reportVars, runVars, recoverVars, orderVars, frameVars, fileVars>>

\* s3_client.delete_object of the source PDF; return True
DeleteSource(delete_ok) ==
    /\ store_pc = "delete"
    /\ IF delete_ok
          THEN /\ store_s3' = [store_s3 EXCEPT !.source_present = FALSE]
               /\ store_pc' = "returned"
               /\ UNCHANGED store_cause
          ELSE /\ StoreRaises("s3")
               /\ UNCHANGED store_s3
    /\ UNCHANGED <<normalized, store_config, store_encounters, enc_idx, encounter_files, ruleVars, engineVars, splitVars, jsonVars, fieldVars, normVars, reportVars, runVars, recoverVars, orderVars, frameVars, fileVars>>

NextStore ==
    \/ \E put_ok \in BOOLEAN : SaveRawAndSplit(put_ok)
    \/ \E put_ok \in BOOLEAN : SaveEncounter(put_ok)
    \/ \E put_ok \in BOOLEAN : SaveSingle(put_ok)
    \/ \E put_ok \in BOOLEAN : WriteManifest(put_ok)
    \/ \E copy_ok \in BOOLEAN : CopyToArchive(copy_ok)
    \/ \E delete_ok \in BOOLEAN : DeleteSource(delete_ok)

SpecStore == InitStore /\ [][NextStore]_vars

\* the delimiter of the document's organization and its delimiter lines
StoreDelimiter ==
    IF store_config.has_delimiter THEN store_config.encounter_delimiter ELSE DefaultDelimiter

StoreDelimiterLines ==
    {k \in DOMAIN SplitLines(normalized.text) :
        Contains(SplitLines(normalized.text)[k], StoreDelimiter)}

\* the encounter saved by the k-th put has no id value: no line of it holds
\* the id field, or nothing but blanks follows the field in the first such line
NoIdValue(k) ==
    LET text_k == store_encounters[k].text
    IN  \/ IdLine(text_k, EncounterIdField(store_config)) = 0
        \/ WordsAfter(text_k, EncounterIdField(store_config)) = <<>>

\* C27: segmentation and id derivation never raise: the handler raises only
\* when an S3 call fails; a document with at most one delimiter line is one
\* encounter; and an encounter without an id value is saved under the
\* fallback id encounter-<n>.
C27_AnomaliesNeverRaise ==
    /\ store_pc = "raised" => store_cause = "s3"
    /\ (store_pc = "encounters" /\ Cardinality(StoreDelimiterLines) <= 1) =>
            Len(store_encounters) = 1
    /\ Len(store_encounters) > 1 =>
            \A k \in DOMAIN encounter_files :
                NoIdValue(k) => encounter_files[k].id = FallbackId(k - 1)

\* what holds of C27: the single-encounter fallback, and the fallback id of
\* an encounter in which no line holds the id field
FallbacksWithoutIdLine ==
    /\ (store_pc = "encounters" /\ Cardinality(StoreDelimiterLines) <= 1) =>
            Len(store_encounters) = 1
    /\ Len(store_encounters) > 1 =>
            \A k \in DOMAIN encounter_files :
                IdLine(store_encounters[k].text, EncounterIdField(store_config)) = 0
                    => encounter_files[k].id = FallbackId(k - 1)

\* reached: a second encounter saved under encounter-2
FallbackIdReached ==
    /\ Len(encounter_files) = 2
    /\ encounter_files[2].id = FallbackId(1)

(***************************************************************************)
(* The order of the writes of process_and_store_results (SpecStore).       *)
(***************************************************************************)
\* the encounter files the document calls for
FilesDue == IF Len(store_encounters) > 1 THEN Len(store_encounters) ELSE 1

KeysOf(puts) == [k \in DOMAIN puts |-> puts[k].key]

\* the manifest is there only when every encounter file is, it lists the
\* keys put in the order of the puts, which is the order of the encounters,
\* and counts them; the source PDF is archived and deleted only after it
ManifestAfterFiles ==
    /\ store_s3.manifest.written =>
          /\ Len(store_s3.puts) = FilesDue
          /\ \A k \in DOMAIN store_s3.puts : store_s3.puts[k].body = k
          /\ store_s3.manifest.encounter_files = KeysOf(store_s3.puts)
          /\ store_s3.manifest.encounter_count = Len(store_s3.manifest.encounter_files)
    /\ store_s3.archived => store_s3.manifest.written
    /\ ~store_s3.source_present => store_s3.archived
    /\ store_pc = "raised" => store_s3.source_present
    /\ (store_pc = "raised" /\ ~store_s3.manifest.written) => ~store_s3.archived

\* no encounter file is put once the manifest is written, and a written
\* manifest and an archive copy stay
ManifestStep ==
    /\ store_s3.manifest.written =>
          /\ store_s3'.puts = store_s3.puts
          /\ store_s3'.manifest = store_s3.manifest
    /\ store_s3.archived => store_s3'.archived

\* C29: the batch manifest is written only after every encounter file has
\* been written and none is written later; it lists exactly the keys
\* written, in encounter order, and encounter_count is the number of keys
\* listed; the source PDF is copied to the archive and deleted only after
\* the manifest was written, and whenever the handler raises the source PDF
\* is still in place.
C29_ManifestAfterFilesBeforeArchive == []ManifestAfterFiles /\ [][ManifestStep]_vars

\* reached: a document of two encounters saved, listed, archived and deleted
C29_Witness ==
    /\ store_pc = "returned"
    /\ Len(store_encounters) = 2
    /\ store_s3.manifest.encounter_count = 2
    /\ Len(store_s3.puts) = 2
    /\ store_s3.archived
    /\ ~store_s3.source_present

\* reached: the copy to the archive fails after the manifest was written
RaisedAfterManifest ==
    /\ store_pc = "raised"
    /\ store_s3.manifest.written
    /\ store_s3.source_present

\* C30: once the encounters of a document split into k >= 2 encounters are
\* saved, the k keys are pairwise distinct and the bucket holds k encounter
\* objects, one per encounter.
C30_DistinctEncounterKeys ==
    (Len(store_encounters) >= 2 /\ enc_idx = Len(store_encounters)) =>
        /\ \A i, j \in DOMAIN encounter_files :
                i # j => encounter_files[i] # encounter_files[j]
        /\ Cardinality(store_s3.objects) = Len(store_encounters)
        /\ \A k \in DOMAIN store_encounters :
                \E o \in store_s3.objects : o.body = k

\* encounters with different sanitized ids are saved under different keys
DistinctIdsDistinctKeys ==
    \A i, j \in DOMAIN encounter_files :
        (i # j /\ encounter_files[i] = encounter_files[j]) =>
            /\ Len(store_encounters) > 1
            /\ safe_encounter_id(encounter_id_of(store_encounters[i].text,
                                                 EncounterIdField(store_config), i - 1))
                 = safe_encounter_id(encounter_id_of(store_encounters[j].text,
                                                     EncounterIdField(store_config), j - 1))

\* reached: ids '/' and '-' give one key, and the first encounter's object
\* is gone
SanitizedIdsCollide ==
    /\ Len(store_encounters) = 2
    /\ enc_idx = 2
    /\ encounter_id_of(store_encounters[1].text, EncounterIdField(store_config), 0) = <<"/">>
    /\ encounter_id_of(store_encounters[2].text, EncounterIdField(store_config), 1) = <<"-">>
    /\ store_s3.objects = {[key |-> encounter_files[2], body |-> 2]}

(***************************************************************************)
(* SpecFile: one call of process_file of the multi-org rules engine on one *)
(* listed key, step by step, with every S3 and DynamoDB call succeeding or *)
(* failing.  A key is a sequence of parts: "P" is the processed prefix     *)
(* env_config['TEXTRACT_PROCESSED'], "A" the archive prefix                *)
(* 'archived/validation/', "x" and "y" are parts of the file name.         *)
(***************************************************************************)
MaxKeyLen == 3
MaxFileRules == 2

ProcessedPrefix == "P"
ArchivePrefix == "A"
KeyNames == {"x", "y"}

\* the keys lambda_handler passes on: listed with Prefix = the processed
\* prefix, ending with the file name
FileKeys ==
    {k \in Strings({ProcessedPrefix} \cup KeyNames, MaxKeyLen) :
        /\ Len(k) >= 2
        /\ k[1] = ProcessedPrefix
        /\ k[Len(k)] \in KeyNames}

\* str.replace(old, new): every occurrence is replaced
ReplaceAll(s, old, new) == [i \in 1..Len(s) |-> IF s[i] = old THEN new ELSE s[i]]

archive_key(key) == ReplaceAll(key, ProcessedPrefix, ArchivePrefix)

\* the bucket after a put or copy to key k, and after a delete of key k
PutKey(b, k, content) == {o \in b : o[1] # k} \cup {<<k, content>>}
DeleteKey(b, k) == {o \in b : o[1] # k}
HasKey(b, k) == \E o \in b : o[1] = k
ContentOf(b, k) == (CHOOSE o \in b : o[1] = k)[2]

\* a variant of process_file that deletes the source right after storing
StepAfterSkipsCopy(step) ==
    CASE step = "read" -> "validate"
      [] step = "validate" -> "store"
      [] step = "store" -> "delete"
      [] step = "copy" -> "delete"
      [] step = "delete" -> "done"

\* the statement that follows each statement of the try block
StepAfter(step) ==
    CASE step = "read" -> "validate"
      [] step = "validate" -> "store"
      [] step = "store" -> "copy"
      [] step = "copy" -> "delete"
      [] step = "delete" -> "done"

\* the file holds the document "doc"; an object of an earlier run with the
\* same name may lie in the archive with the content "old"
InitFile ==
    /\ file_key \in FileKeys
    /\ file_rules \in 0..MaxFileRules
    /\ rules_completed = 0
    /\ file_bucket \in {{<<file_key, "doc">>},
                        {<<file_key, "doc">>, <<archive_key(file_key), "old">>}}
    /\ store_calls = 0
    /\ items_written = 0
    /\ file_steps = <<>>
    /\ file_pc = "read"
    /\ IdleRule /\ IdleEngine /\ IdleSplit /\ IdleJson /\ IdleFields /\ IdleNorm
    /\ IdleReport /\ IdleRun /\ IdleRecover /\ IdleOrder /\ IdleFrame /\ IdleStore

OtherThanFile ==
    <<ruleVars, engineVars, splitVars, jsonVars, fieldVars, normVars, reportVars,
      runVars, recoverVars, orderVars, frameVars, storeVars>>

\* except Exception as e: raise e
FileRaises ==
    /\ file_pc' = "raised"
    /\ UNCHANGED file_steps

FileStepReturns(step) ==
    /\ file_steps' = Append(file_steps, step)
    /\ file_pc' = StepAfter(step)

\* get_object and json.loads of the body
GetObject(ok) ==
    /\ file_pc = "read"
    /\ IF ok /\ HasKey(file_bucket, file_key)
         THEN FileStepReturns("read")
         ELSE FileRaises
    /\ UNCHANGED <<file_key, file_rules, rules_completed, file_bucket, store_calls, items_written>>
    /\ UNCHANGED OtherThanFile

\* validate_document: extract_fields_from_text raises before any rule runs
ExtractRaises ==
    /\ file_pc = "validate"
    /\ rules_completed = 0
    /\ FileRaises
    /\ UNCHANGED <<file_key, file_rules, rules_completed, file_bucket, store_calls, items_written>>
    /\ UNCHANGED OtherThanFile

\* validate_document: as_completed yields one more future; its result or its
\* exception becomes an entry of rule_results
RuleCompletes ==
    /\ file_pc = "validate"
    /\ rules_completed < file_rules
    /\ rules_completed' = rules_completed + 1
    /\ UNCHANGED <<file_key, file_rules, file_bucket, store_calls, items_written, file_steps, file_pc>>
    /\ UNCHANGED OtherThanFile

\* validate_document returns when the with block of the executor has ended
ValidateReturns ==
    /\ file_pc = "validate"
    /\ rules_completed = file_rules
    /\ FileStepReturns("validate")
    /\ UNCHANGED <<file_key, file_rules, rules_completed, file_bucket, store_calls, items_written>>
    /\ UNCHANGED OtherThanFile

\* store_results: one put_item; a failure is printed and not raised
StoreResults(write_ok) ==
    /\ file_pc = "store"
    /\ store_calls' = store_calls + 1
    /\ items_written' = IF write_ok THEN items_written + 1 ELSE items_written
    /\ FileStepReturns("store")
    /\ UNCHANGED <<file_key, file_rules, rules_completed, file_bucket>>
    /\ UNCHANGED OtherThanFile

\* copy_object from key to archive_key
CopyObject(ok) ==
    /\ file_pc = "copy"
    /\ IF ok /\ HasKey(file_bucket, file_key)
         THEN /\ file_bucket' = PutKey(file_bucket, archive_key(file_key),
                                       ContentOf(file_bucket, file_key))
              /\ FileStepReturns("copy")
         ELSE /\ FileRaises
              /\ UNCHANGED file_bucket
    /\ UNCHANGED <<file_key, file_rules, rules_completed, store_calls, items_written>>
    /\ UNCHANGED OtherThanFile

\* delete_object of key
DeleteObject(ok) ==
    /\ file_pc = "delete"
    /\ IF ok
         THEN /\ file_bucket' = DeleteKey(file_bucket, file_key)
              /\ FileStepReturns("delete")
         ELSE /\ FileRaises
              /\ UNCHANGED file_bucket
    /\ UNCHANGED <<file_key, file_rules, rules_completed, store_calls, items_written>>
    /\ UNCHANGED OtherThanFile

NextFile ==
    \/ \E ok \in BOOLEAN : GetObject(ok)
    \/ ExtractRaises
    \/ RuleCompletes
    \/ ValidateReturns
    \/ \E write_ok \in BOOLEAN : StoreResults(write_ok)
    \/ \E ok \in BOOLEAN : CopyObject(ok)
    \/ \E ok \in BOOLEAN : DeleteObject(ok)

SpecFile == InitFile /\ [][NextFile]_vars

ProcessOrder == <<"read", "validate", "store", "copy", "delete">>

StepDone(step) == \E i \in 1..Len(file_steps) : file_steps[i] = step

SourceUnderProcessed == <<file_key, "doc">> \in file_bucket

CopyUnderArchive == <<archive_key(file_key), "doc">> \in file_bucket

\* C28: process_file of the multi-org rules engine performs read, validate,
\* store, copy to the archive and delete in this order, each at most once:
\* validate returns only when every rule has completed, store_results is
\* called exactly once before the copy and writes at most one item, the
\* source is deleted only after the archive copy succeeded, at every moment
\* the document lies under the processed prefix or under the archive prefix,
\* and when process_file raises the source is still under the processed
\* prefix.
C28_ReadValidateStoreCopyDelete ==
    /\ Len(file_steps) <= Len(ProcessOrder)
    /\ file_steps = SubSeq(ProcessOrder, 1, Len(file_steps))
    /\ StepDone("validate") => rules_completed = file_rules
    /\ store_calls = (IF StepDone("store") THEN 1 ELSE 0)
    /\ items_written <= store_calls
    /\ StepDone("copy") => CopyUnderArchive
    /\ ~SourceUnderProcessed => StepDone("delete") /\ CopyUnderArchive
    /\ SourceUnderProcessed \/ CopyUnderArchive
    /\ file_pc = "raised" => SourceUnderProcessed /\ ~StepDone("delete")
    /\ file_pc = "done" <=> StepDone("delete")
    /\ archive_key(file_key)[1] = ArchivePrefix

\* a file with rules and the prefix twice in its key has been stored,
\* copied over an older archive object and deleted
C28_Witness ==
    /\ file_pc = "done"
    /\ file_rules > 0
    /\ rules_completed = file_rules
    /\ items_written = 1
    /\ Len(file_key) = MaxKeyLen
    /\ file_key[2] = ProcessedPrefix
    /\ ~HasKey(file_bucket, file_key)
    /\ CopyUnderArchive

\* the copy failed: process_file raised with the record stored and the
\* source in place
CopyFailedSourceKept ==
    /\ file_pc = "raised"
    /\ file_steps = <<"read", "validate", "store">>
    /\ items_written = 1
    /\ SourceUnderProcessed
    /\ ~CopyUnderArchive

====
